---------------------------- MODULE Spec2Model ----------------------------
(***************************************************************************)
(* Document classification (parsePlanDocumentText), text extraction        *)
(* (extractTextFromDocument), the OCR upload handlers and the plan         *)
(* comparison of ClientManager/server/routes.ts.                           *)
(*                                                                         *)
(* Strings are TLA+ strings; JavaScript's String methods are operators     *)
(* over them.  A match score is the exact fraction <<n, d>> (n/d) of the   *)
(* value the code holds in a double.                                       *)
(***************************************************************************)
EXTENDS Integers, Sequences, FiniteSets, TLC

VARIABLES
    pc,          \* position of the operation under way
    text,        \* parsePlanDocumentText: the text argument
    carriers,    \* parsePlanDocumentText: the carriers argument
    plans,       \* parsePlanDocumentText: the plans argument
    extracted,   \* parsePlanDocumentText: the returned object
    filePath,    \* extractTextFromDocument: the filePath argument
    content,     \* what the file at filePath holds
    extraction,  \* extractTextFromDocument: how the call ended
    database,    \* the carriers and plans tables
    files,       \* req.files / req.file of the OCR request
    tmpDir,      \* the files present in uploadDir (/tmp/uploads/)
    docsDir,     \* the files present in uploaded_documents/
    planDocuments,  \* the plan_documents table
    uploadedFiles,  \* batch-upload: the handler's uploadedFiles array
    results,     \* batch-upload: the handler's results array
    response,    \* the response sent, NoResponse before
    clients,     \* the clients table
    param,       \* compare: req.params.id
    planComparisons,  \* the plan_comparisons table
    stagedDocuments,  \* the staged_documents table
    assignCalls  \* assign: the requests, each with its position and locals

parseVars == <<text, carriers, plans, extracted>>
extractVars == <<filePath, content, extraction>>
ocrVars == <<database, files, tmpDir, docsDir, planDocuments, uploadedFiles,
             results, response>>
compareVars == <<clients, param, planComparisons>>
assignVars == <<stagedDocuments, assignCalls>>

(***************************************************************************)
(* String.prototype methods                                                *)
(***************************************************************************)
Lowers == "abcdefghijklmnopqrstuvwxyz"
Uppers == "ABCDEFGHIJKLMNOPQRSTUVWXYZ"
Digits == "0123456789"

CharAt(s, i) == SubSeq(s, i, i)

\* s.includes(t)
Includes(s, t) ==
    \E i \in 0..(Len(s) - Len(t)) : SubSeq(s, i + 1, i + Len(t)) = t

\* the letters' case mappings, as tables
LowerToUpper ==
    [c \in {CharAt(Lowers, i) : i \in 1..Len(Lowers)} |->
        CharAt(Uppers, CHOOSE i \in 1..Len(Lowers) : CharAt(Lowers, i) = c)]

UpperToLower ==
    [c \in {CharAt(Uppers, i) : i \in 1..Len(Uppers)} |->
        CharAt(Lowers, CHOOSE i \in 1..Len(Uppers) : CharAt(Uppers, i) = c)]

UpperChar(c) == IF c \in DOMAIN LowerToUpper THEN LowerToUpper[c] ELSE c

LowerChar(c) == IF c \in DOMAIN UpperToLower THEN UpperToLower[c] ELSE c

RECURSIVE toUpperCase(_)
toUpperCase(s) ==
    IF Len(s) = 0 THEN ""
    ELSE UpperChar(CharAt(s, 1)) \o toUpperCase(SubSeq(s, 2, Len(s)))

RECURSIVE toLowerCase(_)
toLowerCase(s) ==
    IF Len(s) = 0 THEN ""
    ELSE LowerChar(CharAt(s, 1)) \o toLowerCase(SubSeq(s, 2, Len(s)))

\* the characters \s matches among those the texts here are made of
IsSpace(c) == c = " " \/ c = "\n" \/ c = "\t"

IsDigit(c) == Len(c) = 1 /\ Includes(Digits, c)

\* s.trim()
RECURSIVE trimStart(_)
trimStart(s) ==
    IF Len(s) > 0 /\ IsSpace(CharAt(s, 1))
    THEN trimStart(SubSeq(s, 2, Len(s)))
    ELSE s

RECURSIVE trimEnd(_)
trimEnd(s) ==
    IF Len(s) > 0 /\ IsSpace(CharAt(s, Len(s)))
    THEN trimEnd(SubSeq(s, 1, Len(s) - 1))
    ELSE s

trim(s) == trimEnd(trimStart(s))

\* s.split(/\s+/): the pieces between maximal runs of white space, the empty
\* piece before a leading run and after a trailing run included
RECURSIVE SplitFrom(_, _, _, _)
SplitFrom(s, i, cur, inRun) ==
    IF i > Len(s) THEN <<cur>>
    ELSE IF IsSpace(CharAt(s, i))
         THEN IF inRun THEN SplitFrom(s, i + 1, cur, TRUE)
              ELSE <<cur>> \o SplitFrom(s, i + 1, "", TRUE)
         ELSE SplitFrom(s, i + 1, cur \o CharAt(s, i), FALSE)

splitWhitespace(s) == SplitFrom(s, 1, "", FALSE)

\* words.filter(w => w.length > 2)
SignificantWords(s) == SelectSeq(splitWhitespace(s), LAMBDA w : Len(w) > 2)

(***************************************************************************)
(* Scores: exact fractions <<numerator, denominator>>, denominator > 0     *)
(***************************************************************************)
Frac(n, d) == <<n, d>>
Whole(n) == <<n, 1>>
FracLt(a, b) == a[1] * b[2] < b[1] * a[2]
FracEq(a, b) == a[1] * b[2] = b[1] * a[2]
FracGe(a, k) == a[1] >= k * a[2]
FracAdd(a, b) == <<a[1] * b[2] + b[1] * a[2], a[2] * b[2]>>
FracMul(a, n, d) == <<a[1] * n, a[2] * d>>
FracMax(a, b) == IF FracLt(a, b) THEN b ELSE a

FracFloor(a) == a[1] \div a[2]
IsHalfInteger(a) == (2 * a[1]) % a[2] = 0 /\ ((2 * a[1]) \div a[2]) % 2 = 1

\* the largest power of two that is <= a (a >= 1/2), as a fraction
RECURSIVE Pow2From(_, _)
Pow2From(a, p) ==
    IF FracLt(a, FracMul(p, 2, 1)) THEN p ELSE Pow2From(a, FracMul(p, 2, 1))

Pow2Floor(a) == Pow2From(a, Frac(1, 2))

(***************************************************************************)
(* The double constants 0.7 and 0.6.  The binary64 number nearest 0.7 is   *)
(* 7/10 - (2/5) * 2^-53 and the one nearest 0.6 is 6/10 - (1/5) * 2^-53,   *)
(* so x * 0.7 can fall just below a half-integer that 7x/10 equals, and    *)
(* Math.round then rounds it down.  For a double x the product x * 0.7 is  *)
(* rounded to the half-integer itself exactly when x * (2/5) does not      *)
(* exceed the power of two at or below it (half a unit in the last place). *)
(* A value is [q, belowHalf]: the exact fraction and whether the double    *)
(* lies below the half-integer q.                                          *)
(***************************************************************************)
Double07 == [ratio |-> <<7, 10>>, deficit |-> <<2, 5>>]
Double06 == [ratio |-> <<6, 10>>, deficit |-> <<1, 5>>]

ExactValue(a) == [q |-> a, belowHalf |-> FALSE]

\* x * c, c one of the two constants
TimesDouble(x, c) ==
    LET q == FracMul(x, c.ratio[1], c.ratio[2])
    IN  [q |-> q,
         belowHalf |->
             /\ IsHalfInteger(q)
             /\ FracLt(Pow2Floor(q), FracMul(x, c.deficit[1], c.deficit[2]))]

\* Math.round of a value >= 0: floor(x + 1/2)
MathRound(v) ==
    IF v.belowHalf THEN FracFloor(v.q)
    ELSE (2 * v.q[1] + v.q[2]) \div (2 * v.q[2])

(***************************************************************************)
(* parsePlanDocumentText                                                   *)
(***************************************************************************)
NoCarrier == [id |-> 0, name |-> ""]                 \* bestCarrierMatch = null
NoPlan == [id |-> 0, name |-> "", carrierId |-> 0, planYear |-> 0]
                                                     \* bestPlanMatch = null

docTypePatterns ==
    << [type |-> "SOB",
        keywords |-> <<"SUMMARY OF BENEFITS", "SUMMARY OF BENEFIT", "SOB">>],
       [type |-> "EOC",
        keywords |-> <<"EVIDENCE OF COVERAGE", "EOC">>],
       [type |-> "ANOC",
        keywords |-> <<"ANNUAL NOTICE OF CHANGE", "ANNUAL NOTICE OF CHANGES",
                       "ANOC">>],
       [type |-> "PROVIDER_LIST",
        keywords |-> <<"PROVIDER DIRECTORY", "PROVIDER LIST",
                       "PROVIDER NETWORK">>],
       [type |-> "DRUG_FORMULARY",
        keywords |-> <<"DRUG FORMULARY", "FORMULARY", "PRESCRIPTION DRUG LIST",
                       "COVERED DRUGS">>] >>

HasKeyword(upperText, keywords) ==
    \E k \in 1..Len(keywords) : Includes(upperText, keywords[k])

\* the loop over Object.entries(docTypePatterns); "" when no keyword occurs
DetectDocumentType(upperText) ==
    IF \E t \in 1..Len(docTypePatterns) :
           HasKeyword(upperText, docTypePatterns[t].keywords)
    THEN docTypePatterns[
             CHOOSE t \in 1..Len(docTypePatterns) :
                 /\ HasKeyword(upperText, docTypePatterns[t].keywords)
                 /\ \A u \in 1..(t - 1) :
                        ~HasKeyword(upperText, docTypePatterns[u].keywords)
         ].type
    ELSE ""

\* planIdPattern = /[HS]\d{4}-\d{3}/ matches at position i
PlanIdLen == 9
IsPlanIdAt(s, i) ==
    /\ i + PlanIdLen - 1 <= Len(s)
    /\ CharAt(s, i) \in {"H", "S"}
    /\ \A k \in 1..4 : IsDigit(CharAt(s, i + k))
    /\ CharAt(s, i + 5) = "-"
    /\ \A k \in 6..8 : IsDigit(CharAt(s, i + k))

\* text.match(planIdPattern) || []: the matches left to right, not overlapping
RECURSIVE MatchPlanIds(_, _)
MatchPlanIds(s, i) ==
    IF i + PlanIdLen - 1 > Len(s) THEN <<>>
    ELSE IF IsPlanIdAt(s, i)
         THEN <<SubSeq(s, i, i + PlanIdLen - 1)>>
                  \o MatchPlanIds(s, i + PlanIdLen)
         ELSE MatchPlanIds(s, i + 1)

foundPlanIds(txt) == MatchPlanIds(txt, 1)

\* the number of words that occur in upperText
MatchedWords(upperText, words) ==
    Cardinality({k \in 1..Len(words) : Includes(upperText, words[k])})

\* the score of one carrier (body of the carrier loop up to carrierMatches.push)
CarrierScoreNoRatio(upperText, carrier) ==
    LET carrierName == toUpperCase(carrier.name)
        carrierWords == SignificantWords(carrierName)
    IN  IF Includes(upperText, carrierName) THEN Whole(100)
        ELSE Whole(MatchedWords(upperText, carrierWords) * 100)

CarrierScore(upperText, carrier) ==
    LET carrierName == toUpperCase(carrier.name)
        carrierWords == SignificantWords(carrierName)
    IN  IF Includes(upperText, carrierName) THEN Whole(100)
        ELSE IF Len(carrierWords) > 0
             THEN Frac(MatchedWords(upperText, carrierWords) * 100,
                       Len(carrierWords))
             ELSE Whole(0)

\* the update of bestCarrierScore / bestCarrierMatch for one carrier
CarrierStepNoThreshold(acc, carrier, score) ==
    IF FracLt(acc.bestCarrierScore, score)
    THEN [bestCarrierScore |-> score, bestCarrierMatch |-> carrier]
    ELSE acc

CarrierStep(acc, carrier, score) ==
    IF FracLt(acc.bestCarrierScore, score)
    THEN [bestCarrierScore |-> score,
          bestCarrierMatch |->
              IF FracGe(score, 50) THEN carrier ELSE acc.bestCarrierMatch]
    ELSE acc

RECURSIVE CarrierLoop(_, _, _, _)
CarrierLoop(upperText, cs, i, acc) ==
    IF i > Len(cs) THEN acc
    ELSE CarrierLoop(upperText, cs, i + 1,
                     CarrierStep(acc, cs[i], CarrierScore(upperText, cs[i])))

\* the score of one plan (body of the plan loop up to planMatches.push)
PlanScoreNoPlanId(upperText, planIds, plan) ==
    LET planName == toUpperCase(plan.name)
        planWords == SignificantWords(planName)
    IN  IF Includes(upperText, planName) THEN Whole(90)
        ELSE IF Len(planWords) > 0
             THEN Frac(MatchedWords(upperText, planWords) * 80, Len(planWords))
             ELSE Whole(0)

PlanScoreRatio100(upperText, planIds, plan) ==
    LET planName == toUpperCase(plan.name)
        planWords == SignificantWords(planName)
    IN  IF \E k \in 1..Len(planIds) : Includes(planName, planIds[k])
        THEN Whole(100)
        ELSE IF Includes(upperText, planName) THEN Whole(90)
        ELSE IF Len(planWords) > 0
             THEN Frac(MatchedWords(upperText, planWords) * 100, Len(planWords))
             ELSE Whole(0)

PlanScore(upperText, planIds, plan) ==
    LET planName == toUpperCase(plan.name)
        planWords == SignificantWords(planName)
    IN  IF \E k \in 1..Len(planIds) : Includes(planName, planIds[k])
        THEN Whole(100)
        ELSE IF Includes(upperText, planName) THEN Whole(90)
        ELSE IF Len(planWords) > 0
             THEN Frac(MatchedWords(upperText, planWords) * 80, Len(planWords))
             ELSE Whole(0)

\* the update of bestPlanScore / bestPlanMatch for one plan
PlanStepNoThreshold(acc, plan, score, bestCarrierMatch) ==
    IF \/ FracLt(acc.bestPlanScore, score)
       \/ /\ FracEq(score, acc.bestPlanScore)
          /\ bestCarrierMatch # NoCarrier
          /\ plan.carrierId = bestCarrierMatch.id
    THEN [bestPlanScore |-> score,
          bestPlanMatch |->
              IF bestCarrierMatch = NoCarrier
                 \/ plan.carrierId = bestCarrierMatch.id
              THEN plan
              ELSE IF acc.bestPlanMatch = NoPlan THEN plan
                   ELSE acc.bestPlanMatch]
    ELSE acc

PlanStepNoTie(acc, plan, score, bestCarrierMatch) ==
    IF FracLt(acc.bestPlanScore, score)
    THEN [bestPlanScore |-> score,
          bestPlanMatch |->
              IF FracGe(score, 40)
              THEN IF bestCarrierMatch = NoCarrier
                      \/ plan.carrierId = bestCarrierMatch.id
                   THEN plan
                   ELSE IF acc.bestPlanMatch = NoPlan THEN plan
                        ELSE acc.bestPlanMatch
              ELSE acc.bestPlanMatch]
    ELSE acc

PlanStep(acc, plan, score, bestCarrierMatch) ==
    IF \/ FracLt(acc.bestPlanScore, score)
       \/ /\ FracEq(score, acc.bestPlanScore)
          /\ bestCarrierMatch # NoCarrier
          /\ plan.carrierId = bestCarrierMatch.id
    THEN [bestPlanScore |-> score,
          bestPlanMatch |->
              IF FracGe(score, 40)
              THEN IF bestCarrierMatch = NoCarrier
                      \/ plan.carrierId = bestCarrierMatch.id
                   THEN plan
                   ELSE IF acc.bestPlanMatch = NoPlan THEN plan
                        ELSE acc.bestPlanMatch
              ELSE acc.bestPlanMatch]
    ELSE acc

RECURSIVE PlanLoop(_, _, _, _, _, _)
PlanLoop(upperText, planIds, ps, i, bestCarrierMatch, acc) ==
    IF i > Len(ps) THEN acc
    ELSE PlanLoop(upperText, planIds, ps, i + 1, bestCarrierMatch,
                  PlanStep(acc, ps[i], PlanScore(upperText, planIds, ps[i]),
                           bestCarrierMatch))

\* matches.sort((a, b) => b.score - a.score): stable, by non-increasing score
RECURSIVE InsertByScore(_, _)
InsertByScore(sorted, m) ==
    IF Len(sorted) = 0 THEN <<m>>
    ELSE IF FracLt(Head(sorted).score, m.score) THEN <<m>> \o sorted
         ELSE <<Head(sorted)>> \o InsertByScore(Tail(sorted), m)

RECURSIVE SortByScore(_)
SortByScore(ms) ==
    IF Len(ms) = 0 THEN <<>>
    ELSE InsertByScore(SortByScore(SubSeq(ms, 1, Len(ms) - 1)), ms[Len(ms)])

carrierMatchesOf(upperText, cs) ==
    SortByScore([i \in 1..Len(cs) |->
                    [name |-> cs[i].name,
                     score |-> CarrierScore(upperText, cs[i])]])

\* carriers.find(c => c.id === plan.carrierId)?.name || "Unknown"
CarrierNameOf(cs, plan) ==
    IF \E i \in 1..Len(cs) : cs[i].id = plan.carrierId
    THEN LET n == cs[CHOOSE i \in 1..Len(cs) :
                        /\ cs[i].id = plan.carrierId
                        /\ \A j \in 1..(i - 1) : cs[j].id # plan.carrierId].name
         IN  IF n = "" THEN "Unknown" ELSE n
    ELSE "Unknown"

planMatchesOf(upperText, planIds, cs, ps) ==
    SortByScore([i \in 1..Len(ps) |->
                    [name |-> ps[i].name,
                     carrier |-> CarrierNameOf(cs, ps[i]),
                     score |-> PlanScore(upperText, planIds, ps[i])]])

\* "Calculate overall confidence", before Math.round
ConfidenceNoPenalty(bestCarrierMatch, bestCarrierScore, bestPlanMatch, bestPlanScore) ==
    IF bestCarrierMatch # NoCarrier /\ bestPlanMatch # NoPlan
    THEN ExactValue(FracMul(FracAdd(bestCarrierScore, bestPlanScore), 1, 2))
    ELSE IF bestCarrierMatch # NoCarrier \/ bestPlanMatch # NoPlan
         THEN TimesDouble(FracMax(bestCarrierScore, bestPlanScore), Double06)
         ELSE ExactValue(Whole(0))

ConfidenceUnguarded(bestCarrierMatch, bestCarrierScore, bestPlanMatch, bestPlanScore) ==
    IF bestCarrierMatch # NoCarrier /\ bestPlanMatch # NoPlan
    THEN IF bestPlanMatch.carrierId = bestCarrierMatch.id
         THEN ExactValue(FracMul(FracAdd(bestCarrierScore, bestPlanScore), 1, 2))
         ELSE TimesDouble(FracMul(FracAdd(bestCarrierScore, bestPlanScore), 1, 2),
                          Double07)
    ELSE TimesDouble(FracMax(bestCarrierScore, bestPlanScore), Double06)

Confidence(bestCarrierMatch, bestCarrierScore, bestPlanMatch, bestPlanScore) ==
    IF bestCarrierMatch # NoCarrier /\ bestPlanMatch # NoPlan
    THEN IF bestPlanMatch.carrierId = bestCarrierMatch.id
         THEN ExactValue(FracMul(FracAdd(bestCarrierScore, bestPlanScore), 1, 2))
         ELSE TimesDouble(FracMul(FracAdd(bestCarrierScore, bestPlanScore), 1, 2),
                          Double07)
    ELSE IF bestCarrierMatch # NoCarrier \/ bestPlanMatch # NoPlan
         THEN TimesDouble(FracMax(bestCarrierScore, bestPlanScore), Double06)
         ELSE ExactValue(Whole(0))

(***************************************************************************)
(* extractPlanBenefits.  The `benefits` object is the set of its            *)
(* <<field, value>> entries.  Every pattern of the function starts with a  *)
(* key phrase; of the key phrases only "moop" and "silver ... fit" occur in *)
(* the texts of the specifications below, so these two pattern lists are   *)
(* the ones that can add an entry.                                         *)
(***************************************************************************)
\* the end of the longest run of characters of s from position i on that
\* occur in chars
RECURSIVE SkipWhile(_, _, _)
SkipWhile(s, i, chars) ==
    IF i <= Len(s) /\ Includes(chars, CharAt(s, i))
    THEN SkipWhile(s, i + 1, chars)
    ELSE i

\* s[i], and the n characters of s from position i on; "" past the end of s
At(s, i) == IF i <= Len(s) THEN CharAt(s, i) ELSE ""
Sub(s, i, n) == IF i + n - 1 <= Len(s) THEN SubSeq(s, i, i + n - 1) ELSE ""

AllDigits(s, from, to) ==
    to <= Len(s) /\ \A k \in from..to : IsDigit(CharAt(s, k))

\* (\d+(?:,\d{3})?(?:\.\d{2})?) at position i: the position after the match,
\* i itself when there is no digit at i
AmountEnd(s, i) ==
    LET d == SkipWhile(s, i, Digits)
        g == IF d > i /\ At(s, d) = "," /\ AllDigits(s, d + 1, d + 3)
             THEN d + 4 ELSE d
    IN  IF d > i /\ At(s, g) = "." /\ AllDigits(s, g + 1, g + 2)
        THEN g + 3 ELSE g

\* value.replace(/,/g, '')
RECURSIVE RemoveCommas(_)
RemoveCommas(s) ==
    IF Len(s) = 0 THEN ""
    ELSE (IF CharAt(s, 1) = "," THEN "" ELSE CharAt(s, 1))
             \o RemoveCommas(SubSeq(s, 2, Len(s)))

\* the characters of \s that the texts here are made of
Spaces == " \n\t"

\* /moop[:\s]*\$?(\d+(?:,\d{3})?(?:\.\d{2})?)/i at position i of s, whose
\* lower-cased form is low: where the amount starts, 0 when there is no match
MoopAmountStart(s, low, i) ==
    IF Sub(low, i, 4) = "moop"
    THEN LET j == SkipWhile(s, i + 4, ":" \o Spaces)
             a == IF At(s, j) = "$" THEN j + 1 ELSE j
         IN  IF AmountEnd(s, a) > a THEN a ELSE 0
    ELSE 0

\* moopPatterns: the entry of the first match, in the texts where no
\* "out of pocket" phrase occurs
maxOutOfPocket(s, low) ==
    LET at == {i \in 1..(Len(s) - 3) : MoopAmountStart(s, low, i) > 0}
    IN  IF at = {} THEN {}
        ELSE LET first == CHOOSE m \in at : \A k \in at : m <= k
                 a == MoopAmountStart(s, low, first)
             IN  {<<"maxOutOfPocket",
                    RemoveCommas(SubSeq(s, a, AmountEnd(s, a) - 1))>>}

\* /silver[\s&]+fit/i matches at position i
IsSilverFitAt(low, i) ==
    /\ Sub(low, i, 6) = "silver"
    /\ LET j == SkipWhile(low, i + 6, "&" \o Spaces)
       IN  j > i + 6 /\ Sub(low, j, 3) = "fit"

\* fitnessPatterns, in the texts without "fitness ..." and "gym membership"
fitnessOption(low) ==
    IF \E i \in 1..(Len(low) - 5) : IsSilverFitAt(low, i)
    THEN {<<"fitnessOption", "SilverSneakers or similar program">>}
    ELSE {}

extractPlanBenefits(txt) ==
    maxOutOfPocket(txt, toLowerCase(txt)) \cup fitnessOption(toLowerCase(txt))

\* "Extract plan benefits if this is an SOB document"
extractedBenefitsAlways(documentType, txt) == extractPlanBenefits(txt)

extractedBenefitsOf(documentType, txt) ==
    IF documentType = "SOB" THEN extractPlanBenefits(txt) ELSE {}

parsePlanDocumentText(txt, cs, ps) ==
    LET upperText == toUpperCase(txt)
        documentType == DetectDocumentType(upperText)
        planIds == foundPlanIds(txt)
        c == CarrierLoop(upperText, cs, 1,
                         [bestCarrierScore |-> Whole(0),
                          bestCarrierMatch |-> NoCarrier])
        p == PlanLoop(upperText, planIds, ps, 1, c.bestCarrierMatch,
                      [bestPlanScore |-> Whole(0), bestPlanMatch |-> NoPlan])
    IN  [carrier |-> c.bestCarrierMatch,
         plan |-> p.bestPlanMatch,
         documentType |-> IF documentType = "" THEN "UNKNOWN" ELSE documentType,
         confidence |-> MathRound(Confidence(c.bestCarrierMatch, c.bestCarrierScore,
                                             p.bestPlanMatch, p.bestPlanScore)),
         carrierMatches |-> carrierMatchesOf(upperText, cs),
         planMatches |-> planMatchesOf(upperText, planIds, cs, ps),
         detectedPlanIds |-> planIds,
         extractedBenefits |-> extractedBenefitsOf(documentType, txt)]

\* the value of `extracted` before the call
NoResult ==
    [carrier |-> NoCarrier, plan |-> NoPlan, documentType |-> "",
     confidence |-> 0, carrierMatches |-> <<>>, planMatches |-> <<>>,
     detectedPlanIds |-> <<>>, extractedBenefits |-> {}]

(***************************************************************************)
(* The carrier and plan tables, as storage.getAllCarriers and              *)
(* storage.getAllPlans return them                                         *)
(***************************************************************************)
\* The carriers a database may hold, listed by ascending name (name is unique)
CarrierPool ==
    << [id |-> 2, name |-> "Aetna"],
       [id |-> 3, name |-> "Blue Cross"],
       [id |-> 1, name |-> "United Health Care"] >>

\* The plans a database may hold, listed by ascending name
PlanPool ==
    << [id |-> 11, name |-> "Gold Plus H1234-001", carrierId |-> 2],
       [id |-> 13, name |-> "Gold Plus Value Select", carrierId |-> 1],
       [id |-> 12, name |-> "Gold Value", carrierId |-> 3] >>

PlanYears == {2025, 2026}
Absent == 0

RECURSIVE AscendingSeq(_)
AscendingSeq(S) ==
    IF S = {} THEN <<>>
    ELSE LET m == CHOOSE x \in S : \A y \in S : x <= y
         IN  <<m>> \o AscendingSeq(S \ {m})

RECURSIVE DescendingSeq(_)
DescendingSeq(S) ==
    IF S = {} THEN <<>>
    ELSE LET m == CHOOSE x \in S : \A y \in S : x >= y
         IN  <<m>> \o DescendingSeq(S \ {m})

\* db.select().from(carriers).orderBy(carriers.name), of the rows in `rows`
\* (a set of positions of CarrierPool)
getAllCarriers(rows) ==
    LET order == AscendingSeq(rows)
    IN  [i \in 1..Len(order) |-> CarrierPool[order[i]]]

\* the rows of plan year y, by name; pool lists the rows by ascending name
PlansOfYear(pool, years, y) ==
    LET order == AscendingSeq({k \in DOMAIN pool : years[k] = y})
    IN  [i \in 1..Len(order) |-> [planYear |-> y] @@ pool[order[i]]]

RECURSIVE ConcatYears(_, _, _)
ConcatYears(pool, years, ys) ==
    IF Len(ys) = 0 THEN <<>>
    ELSE PlansOfYear(pool, years, Head(ys)) \o ConcatYears(pool, years, Tail(ys))

\* db.select().from(plans).orderBy(desc(plans.planYear), plans.name);
\* years[k] is the plan year of pool[k], or Absent
getAllPlans(pool, years) == ConcatYears(pool, years, DescendingSeq(PlanYears))

\* plans.carrier_id references carriers.id
ForeignKeysHold(rows, years) ==
    \A k \in DOMAIN PlanPool :
        years[k] # Absent =>
            \E c \in rows : CarrierPool[c].id = PlanPool[k].carrierId

EmptyDatabase ==
    [rows |-> {}, years |-> [k \in DOMAIN PlanPool |-> Absent]]

Databases ==
    {d \in [rows : SUBSET DOMAIN CarrierPool,
            years : [DOMAIN PlanPool -> PlanYears \cup {Absent}]] :
        ForeignKeysHold(d.rows, d.years)}

(***************************************************************************)
(* extractTextFromDocument                                                 *)
(***************************************************************************)
\* the position of the last occurrence of character c in s, 0 when none
LastIndexOf(s, c) ==
    IF \E i \in 1..Len(s) : CharAt(s, i) = c
    THEN CHOOSE i \in 1..Len(s) :
             /\ CharAt(s, i) = c
             /\ \A j \in (i + 1)..Len(s) : CharAt(s, j) # c
    ELSE 0

\* path.basename(p)
basename(p) == SubSeq(p, LastIndexOf(p, "/") + 1, Len(p))

\* path.extname(p): from the last "." of the base name, "" when there is none
\* or the base name starts with it
extname(p) ==
    LET base == basename(p)
        dot == LastIndexOf(base, ".")
    IN  IF dot <= 1 THEN "" ELSE SubSeq(base, dot, Len(base))

ScannedPdfMinChars == 50

ScannedPdfMessage ==
    "This appears to be a scanned PDF. Please convert the document to JPG or PNG format and re-upload for OCR processing."
PdfFailedMessage ==
    "Failed to extract text from PDF. For scanned documents, please convert to JPG or PNG format."
\* what fs.readFileSync, PDFParse.getText or Tesseract.recognize throw on a
\* file they cannot read
LibraryMessage == "Invalid or unreadable file"

Returned(t) == [text |-> t, threw |-> FALSE, message |-> ""]
Threw(msg) == [text |-> "", threw |-> TRUE, message |-> msg]
NotCalled == [text |-> "", threw |-> FALSE, message |-> "not called"]

\* the try block of the PDF branch
PdfTryNoLengthCheck(c) ==
    IF ~c.readable THEN Threw(LibraryMessage) ELSE Returned(c.text)

PdfTry(c) ==
    IF ~c.readable THEN Threw(LibraryMessage)
    ELSE IF Len(trim(c.text)) < ScannedPdfMinChars
         THEN Threw(ScannedPdfMessage)
         ELSE Returned(c.text)

\* the catch block of the PDF branch
PdfCatch(r) ==
    IF ~r.threw THEN r
    ELSE IF Includes(r.message, "scanned PDF") THEN r
         ELSE Threw(PdfFailedMessage)

\* c is what the file holds: whether the libraries can read it, and the text
\* they find in it (the PDF's text layer, or what the OCR recognises)
extractTextFromDocument(path, c) ==
    LET ext == toLowerCase(extname(path))
    IN  IF ext = ".pdf" THEN PdfCatch(PdfTry(c))
        ELSE IF ~c.readable THEN Threw(LibraryMessage)
             ELSE Returned(c.text)

(***************************************************************************)
(* POST /api/ocr/batch-upload and POST /api/ocr/process                    *)
(***************************************************************************)
NoResponse == [status |-> 0, body |-> "none"]

allowedMimeTypes == {"application/pdf", "image/jpeg", "image/png", "image/jpg"}

MinConfidence == 40

\* the condition under which the batch handler goes on to save the document
\* (the negation of the "CRITICAL: Validate carrier/plan match" test)
PassesGateNoCarrierCheck(e) ==
    ~(e.carrier = NoCarrier \/ e.plan = NoPlan \/ e.confidence < MinConfidence)

PassesGate(e) ==
    ~(\/ e.carrier = NoCarrier
      \/ e.plan = NoPlan
      \/ e.plan.carrierId # e.carrier.id
      \/ e.confidence < MinConfidence)

\* the error of a result the gate rejects
GateError(e) ==
    IF e.carrier # NoCarrier /\ e.plan # NoPlan /\ e.plan.carrierId # e.carrier.id
    THEN "Carrier and plan mismatch - cannot auto-assign"
    ELSE IF e.confidence < MinConfidence
         THEN "Low confidence match - manual review required"
         ELSE "Could not identify carrier or plan"

IsAlphaNumeric(c) ==
    Len(c) = 1 /\ (Includes(Lowers, c) \/ Includes(Uppers, c) \/ Includes(Digits, c))

\* documentType.replace(/[^a-zA-Z0-9]/g, '_')
RECURSIVE safeDocType(_)
safeDocType(t) ==
    IF Len(t) = 0 THEN ""
    ELSE (IF IsAlphaNumeric(CharAt(t, 1)) THEN CharAt(t, 1) ELSE "_")
             \o safeDocType(SubSeq(t, 2, Len(t)))

\* `${safeDocType}_${extracted.plan.id}_${timestamp}${fileExtension}`; the
\* files of a request are processed one after another, and Date.now() of the
\* i-th is taken to be i
newFileName(e, f, i) ==
    safeDocType(e.documentType) \o "_" \o ToString(e.plan.id) \o "_"
        \o ToString(i) \o extname(f.originalname)

FailedResult(f, msg) ==
    [documentType |-> "", confidence |-> 0, fileName |-> f.originalname,
     success |-> FALSE, error |-> msg, planId |-> 0, documentId |-> 0]

SavedResult(f, e, docId) ==
    [documentType |-> e.documentType, confidence |-> e.confidence,
     fileName |-> f.originalname, success |-> TRUE, error |-> "",
     planId |-> e.plan.id, documentId |-> docId]

\* the row storage.createPlanDocument inserts and returns
PlanDocumentRow(e, f, i) ==
    [filePath |-> newFileName(e, f, i),
     id |-> Len(planDocuments) + 1,
     documentType |-> e.documentType,
     fileName |-> f.originalname,
     planId |-> e.plan.id]

Paths(fs) == {fs[i].path : i \in 1..Len(fs)}
SeqToSet(q) == {q[i] : i \in 1..Len(q)}

\* multer (upload.array / upload.single) has stored the request's files in
\* uploadDir when the handler starts
BatchRequest(fs) ==
    /\ pc = "idle"
    /\ files' = fs
    /\ tmpDir' = tmpDir \cup Paths(fs)
    /\ pc' = "batch:start"
    /\ UNCHANGED <<database, docsDir, planDocuments, uploadedFiles, results,
                   response, parseVars, extractVars, compareVars, assignVars>>

\* from the start of the handler to the end of the MIME validation
BatchValidate ==
    /\ pc = "batch:start"
    /\ \/ /\ Len(files) = 0
          /\ response' = [status |-> 400, body |-> "No files uploaded"]
          /\ pc' = "responded"
          /\ UNCHANGED tmpDir
       \/ /\ Len(files) > 0
          /\ \E i \in 1..Len(files) : files[i].mimetype \notin allowedMimeTypes
          /\ tmpDir' = tmpDir \ Paths(files)
          /\ LET first == CHOOSE i \in 1..Len(files) :
                              /\ files[i].mimetype \notin allowedMimeTypes
                              /\ \A j \in 1..(i - 1) :
                                     files[j].mimetype \in allowedMimeTypes
             IN  response' =
                     [status |-> 400,
                      body |-> "Invalid file type: " \o files[first].originalname
                               \o ". Only PDF, JPG, and PNG files are allowed."]
          /\ pc' = "responded"
       \/ /\ Len(files) > 0
          /\ \A i \in 1..Len(files) : files[i].mimetype \in allowedMimeTypes
          /\ pc' = "batch:catalogs"
          /\ UNCHANGED <<tmpDir, response>>
    /\ UNCHANGED <<database, files, docsDir, planDocuments, uploadedFiles,
                   results, parseVars, extractVars, compareVars, assignVars>>

\* storage.getAllCarriers() and storage.getAllPlans(); when a query rejects,
\* the outer catch unlinks the paths in uploadedFiles and answers 500
BatchLoadCatalogs ==
    /\ pc = "batch:catalogs"
    /\ \/ /\ carriers' = getAllCarriers(database.rows)
          /\ plans' = getAllPlans(PlanPool, database.years)
          /\ pc' = "batch:loop"
          /\ UNCHANGED <<tmpDir, response>>
       \/ /\ tmpDir' = tmpDir \ SeqToSet(uploadedFiles)
          /\ response' = [status |-> 500, body |-> "Failed to process batch upload"]
          /\ pc' = "responded"
          /\ UNCHANGED <<carriers, plans>>
    /\ UNCHANGED <<database, files, docsDir, planDocuments, uploadedFiles,
                   results, text, extracted, extractVars, compareVars, assignVars>>

\* one iteration of "for (const file of files)"
BatchProcessFile ==
    /\ pc = "batch:loop"
    /\ Len(results) < Len(files)
    /\ LET i == Len(results) + 1
           f == files[i]
           ex == extractTextFromDocument(f.path, f.content)
           e == parsePlanDocumentText(ex.text, carriers, plans)
       IN  /\ uploadedFiles' = Append(uploadedFiles, f.path)
           /\ extraction' = ex
           /\ \/ /\ ex.threw
                 /\ results' = Append(results, FailedResult(f, ex.message))
                 /\ UNCHANGED <<text, extracted, docsDir, planDocuments>>
              \/ /\ ~ex.threw
                 /\ Len(trim(ex.text)) = 0
                 /\ results' = Append(results,
                                      FailedResult(f, "No text found in document"))
                 /\ text' = ex.text
                 /\ UNCHANGED <<extracted, docsDir, planDocuments>>
              \/ /\ ~ex.threw
                 /\ Len(trim(ex.text)) > 0
                 /\ ~PassesGate(e)
                 /\ results' = Append(results, FailedResult(f, GateError(e)))
                 /\ text' = ex.text
                 /\ extracted' = e
                 /\ UNCHANGED <<docsDir, planDocuments>>
              \/ \* fs.mkdirSync or fs.copyFileSync throws: the per-file catch
                 /\ ~ex.threw
                 /\ Len(trim(ex.text)) > 0
                 /\ PassesGate(e)
                 /\ text' = ex.text
                 /\ extracted' = e
                 /\ results' = Append(results, FailedResult(f, "copy failed"))
                 /\ UNCHANGED <<docsDir, planDocuments>>
              \/ /\ ~ex.threw
                 /\ Len(trim(ex.text)) > 0
                 /\ PassesGate(e)
                 /\ text' = ex.text
                 /\ extracted' = e
                 /\ docsDir' = docsDir \cup {newFileName(e, f, i)}
                 /\ \/ /\ planDocuments' =
                              Append(planDocuments, PlanDocumentRow(e, f, i))
                       /\ results' = Append(results,
                                            SavedResult(f, e, Len(planDocuments) + 1))
                    \/ \* storage.createPlanDocument rejects: the per-file catch
                       /\ results' = Append(results,
                                            FailedResult(f, "insert failed"))
                       /\ UNCHANGED planDocuments
    /\ UNCHANGED <<pc, database, files, tmpDir, response, carriers, plans,
                   filePath, content, compareVars, assignVars>>

\* a summary sent as soon as one file has been processed
BatchRespondEarly ==
    /\ pc = "batch:loop"
    /\ Len(results) > 0
    /\ tmpDir' = tmpDir \ SeqToSet(uploadedFiles)
    /\ LET successCount == Cardinality({i \in 1..Len(results) : results[i].success})
       IN  response' = [status |-> 200,
                        body |-> [total |-> Len(results),
                                  successful |-> successCount,
                                  failed |-> Len(results) - successCount]]
    /\ pc' = "responded"
    /\ UNCHANGED <<database, files, docsDir, planDocuments, uploadedFiles,
                   results, parseVars, extractVars, compareVars, assignVars>>

\* after the loop: "Clean up all temporary files" and the results summary
BatchRespond ==
    /\ pc = "batch:loop"
    /\ Len(results) = Len(files)
    /\ tmpDir' = tmpDir \ SeqToSet(uploadedFiles)
    /\ LET successCount == Cardinality({i \in 1..Len(results) : results[i].success})
       IN  response' = [status |-> 200,
                        body |-> [total |-> Len(results),
                                  successful |-> successCount,
                                  failed |-> Len(results) - successCount]]
    /\ pc' = "responded"
    /\ UNCHANGED <<database, files, docsDir, planDocuments, uploadedFiles,
                   results, parseVars, extractVars, compareVars, assignVars>>

\* POST /api/ocr/process: upload.single('file') has stored the file, if any
ProcessRequest(fs) ==
    /\ pc = "idle"
    /\ Len(fs) <= 1
    /\ files' = fs
    /\ tmpDir' = tmpDir \cup Paths(fs)
    /\ pc' = "process:start"
    /\ UNCHANGED <<database, docsDir, planDocuments, uploadedFiles, results,
                   response, parseVars, extractVars, compareVars, assignVars>>

\* the handler of POST /api/ocr/process
ProcessHandle ==
    /\ pc = "process:start"
    /\ \/ /\ Len(files) = 0
          /\ response' = [status |-> 400, body |-> "No file uploaded"]
          /\ UNCHANGED <<tmpDir, extraction>>
       \/ /\ Len(files) = 1
          /\ LET f == files[1]
                 ex == extractTextFromDocument(f.path, f.content)
             IN  /\ extraction' = ex
                 /\ tmpDir' = tmpDir \ {f.path}
                 /\ response' =
                        [status |-> 200,
                         body |-> IF ex.threw
                                  THEN [success |-> FALSE, error |-> ex.message]
                                  ELSE IF Len(trim(ex.text)) = 0
                                  THEN [success |-> FALSE,
                                        error |-> "No text found in document"]
                                  ELSE [success |-> TRUE, error |-> ""]]
    /\ pc' = "responded"
    /\ UNCHANGED <<database, files, docsDir, planDocuments, uploadedFiles,
                   results, parseVars, filePath, content, compareVars, assignVars>>

(***************************************************************************)
(* POST /api/clients/:id/compare                                           *)
(***************************************************************************)
\* a NULL column (JS null) of a text or numeric column, and of an id column
Null == "null"
NullId == 0
NullArray == [null |-> TRUE, items |-> <<>>]
Array(items) == [null |-> FALSE, items |-> items]

\* v || d, v a string or null
OrDefault(v, d) == IF v = Null \/ v = "" THEN d ELSE v

DigitValue(c) == CHOOSE d \in 0..9 : CharAt(Digits, d + 1) = c

RECURSIVE Pow10(_)
Pow10(k) == IF k = 0 THEN 1 ELSE 10 * Pow10(k - 1)

\* the run of decimal digits of s from position i on: its value, its length
RECURSIVE ReadDigits(_, _, _, _)
ReadDigits(s, i, value, count) ==
    IF i <= Len(s) /\ IsDigit(CharAt(s, i))
    THEN ReadDigits(s, i + 1, 10 * value + DigitValue(CharAt(s, i)), count + 1)
    ELSE [value |-> value, count |-> count, next |-> i]

\* parseInt(s): the leading digits of s, NaN when there are none
parseInt(s) ==
    LET t == trimStart(s)
        run == ReadDigits(t, 1, 0, 0)
    IN  [value |-> run.value, nan |-> run.count = 0]

\* n / 10^c without the trailing zeros of its decimals
RECURSIVE StripZeros(_, _)
StripZeros(n, c) ==
    IF c > 0 /\ n % 10 = 0 THEN StripZeros(n \div 10, c - 1) ELSE Frac(n, Pow10(c))

\* parseFloat(s) of an unsigned decimal numeral "ddd" or "ddd.dd", as the
\* numeric(10,2) columns and the defaults "0" and "999999" are: the decimal
\* number the numeral denotes, as a fraction
parseFloat(s) ==
    LET whole == ReadDigits(s, 1, 0, 0)
        part == IF whole.next <= Len(s) /\ CharAt(s, whole.next) = "."
                THEN ReadDigits(s, whole.next + 1, 0, 0)
                ELSE [value |-> 0, count |-> 0, next |-> whole.next]
    IN  StripZeros(whole.value * Pow10(part.count) + part.value, part.count)

FracSub(a, b) == <<a[1] * b[2] - b[1] * a[2], a[2] * b[2]>>
MathAbs(a) == IF a[1] < 0 THEN <<0 - a[1], a[2]>> ELSE a

(***************************************************************************)
(* Subtraction of doubles.  parseFloat gives the binary64 number nearest   *)
(* the decimal x; for x = h/100 in the binade [2^e, 2^(e+1)) it is         *)
(* x + d * 2^(e-52) / 25 with d in -12..12 fixed by h * 2^(50-e) mod 25.   *)
(* Errors are counted in units of 2^-59 / 25, which makes them integers    *)
(* for every x >= 0.01.  The difference of two doubles is exact before it  *)
(* is rounded to the nearest double, ties to the even mantissa.            *)
(***************************************************************************)
RECURSIVE FloorLog2(_)
FloorLog2(n) == IF n < 2 THEN 0 ELSE 1 + FloorLog2(n \div 2)

RECURSIVE Pow2(_)
Pow2(k) == IF k = 0 THEN 1 ELSE 2 * Pow2(k - 1)

RECURSIVE Pow2Mod25(_)
Pow2Mod25(k) == IF k = 0 THEN 1 ELSE (2 * Pow2Mod25(k - 1)) % 25

\* e + 7 for the binade [2^e, 2^(e+1)) of h hundredths, h > 0
RECURSIVE BinadeOf(_)
BinadeOf(h) ==
    IF h >= 100 THEN 7 + FloorLog2(h \div 100) ELSE BinadeOf(2 * h) - 1

\* the double nearest the decimal x >= 0 (at most two decimals), minus x
DoubleError(x) ==
    IF x[1] = 0 THEN 0
    ELSE LET h == x[1] * (100 \div x[2])
             k == BinadeOf(h)
             r == ((h % 25) * Pow2Mod25(57 - k)) % 25
         IN  (IF r <= 12 THEN 0 - r ELSE 25 - r) * Pow2(k)

\* a - b of the doubles nearest the decimals a and b: the difference q of
\* the decimals and the difference eps of the doubles' errors; the result
\* is the double nearest q + eps * 2^-59 / 25
DoubleMinus(a, b) ==
    [q |-> FracSub(a, b), eps |-> DoubleError(a) - DoubleError(b)]

\* half the distance from the integer t # 0 to the next double, away from
\* zero or towards it
HalfGap(t, away) ==
    LET a == IF t < 0 THEN 0 - t ELSE t
        g == 25 * Pow2(FloorLog2(a) + 6)
    IN  IF ~away /\ Pow2(FloorLog2(a)) = a THEN g \div 2 ELSE g

\* v > t and v < t for a difference v of doubles and an integer t
DoubleGt(v, t) ==
    IF ~FracEq(v.q, Whole(t)) THEN FracLt(Whole(t), v.q)
    ELSE IF t = 0 THEN v.eps > 0
    ELSE v.eps > HalfGap(t, t > 0)

DoubleLt(v, t) ==
    IF ~FracEq(v.q, Whole(t)) THEN FracLt(v.q, Whole(t))
    ELSE IF t = 0 THEN v.eps < 0
    ELSE 0 - v.eps > HalfGap(t, t < 0)

RECURSIVE PadStart(_, _)
PadStart(s, n) == IF Len(s) >= n THEN s ELSE PadStart("0" \o s, n)

\* Number.prototype.toFixed(f) of a value >= 0: the nearest numeral with f
\* decimals, the larger one when two are equally near
toFixed(a, f) ==
    LET n == (2 * a[1] * Pow10(f) + a[2]) \div (2 * a[2])
    IN  ToString(n \div Pow10(f))
            \o (IF f = 0 THEN "" ELSE "." \o PadStart(ToString(n % Pow10(f)), f))

\* Array.prototype.includes
ArrayIncludes(items, x) == \E i \in 1..Len(items) : items[i] = x

\* the availablePlans filter without its last conjunct
IsAvailableWithCurrent(client, currentPlan, plan) ==
    /\ plan.stateCode = client.state
    /\ ~plan.counties.null
    /\ ArrayIncludes(plan.counties.items, client.county)

\* the availablePlans filter without its test of the counties
IsAvailableAnyCounty(client, currentPlan, plan) ==
    /\ plan.stateCode = client.state
    /\ plan.id # currentPlan.id

\* the predicate of allPlans.filter(...)
IsAvailable(client, currentPlan, plan) ==
    /\ plan.stateCode = client.state
    /\ ~plan.counties.null
    /\ ArrayIncludes(plan.counties.items, client.county)
    /\ plan.id # currentPlan.id

\* the premium branches with the penalty given to every higher premium
PremiumPointsAnyIncrease(premiumSavings) ==
    IF DoubleGt(premiumSavings, 50) THEN [points |-> 40, saves |-> TRUE]
    ELSE IF DoubleGt(premiumSavings, 20) THEN [points |-> 25, saves |-> TRUE]
    ELSE IF DoubleGt(premiumSavings, 0) THEN [points |-> 10, saves |-> TRUE]
    ELSE IF DoubleLt(premiumSavings, 0)
         THEN [points |-> 0 - 20, saves |-> FALSE]
    ELSE [points |-> 0, saves |-> FALSE]

\* the premium branch chosen for premiumSavings, with the points it gives
PremiumPoints(premiumSavings) ==
    IF DoubleGt(premiumSavings, 50) THEN [points |-> 40, saves |-> TRUE]
    ELSE IF DoubleGt(premiumSavings, 20) THEN [points |-> 25, saves |-> TRUE]
    ELSE IF DoubleGt(premiumSavings, 0) THEN [points |-> 10, saves |-> TRUE]
    ELSE IF DoubleLt(premiumSavings, 0 - 20)
         THEN [points |-> 0 - 20, saves |-> FALSE]
    ELSE [points |-> 0, saves |-> FALSE]

PremiumReasons(branch, amount) ==
    IF branch.saves THEN <<"Saves $" \o amount \o "/month on premium">>
    ELSE IF branch.points < 0 THEN <<"Higher premium by $" \o amount \o "/month">>
    ELSE <<>>

\* premiumSavings differs from the decimal premiumSavings.q by less than
\* half a cent, so toFixed(2) prints q
PremiumOf(premiumSavings) ==
    [points |-> PremiumPoints(premiumSavings).points,
     reasons |-> PremiumReasons(PremiumPoints(premiumSavings),
                                toFixed(MathAbs(premiumSavings.q), 2))]

PremiumRule(currentPlan, plan) ==
    PremiumOf(DoubleMinus(parseFloat(OrDefault(currentPlan.monthlyPremium, "0")),
                          parseFloat(OrDefault(plan.monthlyPremium, "0"))))

\* parseFloat is increasing, so the doubles compare as the decimals do; the
\* difference of two whole-dollar amounts is exact
MoopOf(currentMoop, planMoop) ==
    IF FracLt(planMoop, currentMoop)
    THEN [points |-> 30,
          reasons |-> <<"Lower max out-of-pocket by $"
                           \o toFixed(FracSub(currentMoop, planMoop), 0)>>]
    ELSE [points |-> 0, reasons |-> <<>>]

\* the MOOP comparison with a missing amount read as 0
MoopRuleZeroDefault(currentPlan, plan) ==
    MoopOf(parseFloat(OrDefault(currentPlan.maxOutOfPocket, "0")),
           parseFloat(OrDefault(plan.maxOutOfPocket, "0")))

MoopRule(currentPlan, plan) ==
    MoopOf(parseFloat(OrDefault(currentPlan.maxOutOfPocket, "999999")),
           parseFloat(OrDefault(plan.maxOutOfPocket, "999999")))

\* the copay comparison that skips a candidate without a copay on record
CopayRuleSkipMissing(current, candidate, reason) ==
    IF /\ candidate # Null
       /\ FracLt(parseFloat(OrDefault(candidate, "0")),
                 parseFloat(OrDefault(current, "0")))
    THEN [points |-> 10, reasons |-> <<reason>>]
    ELSE [points |-> 0, reasons |-> <<>>]

CopayRule(current, candidate, reason) ==
    IF FracLt(parseFloat(OrDefault(candidate, "0")),
              parseFloat(OrDefault(current, "0")))
    THEN [points |-> 10, reasons |-> <<reason>>]
    ELSE [points |-> 0, reasons |-> <<>>]

\* the SNP bonus given once for each of the two SNP flags
SnpRuleEachFlag(plan) ==
    [points |-> (IF plan.isCSnp THEN 15 ELSE 0) + (IF plan.isDSnp THEN 15 ELSE 0),
     reasons |-> (IF plan.isCSnp THEN <<"C-SNP plan for chronic conditions">>
                  ELSE <<>>)
                 \o (IF plan.isDSnp THEN <<"D-SNP plan for dual-eligible">>
                     ELSE <<>>)]

SnpRule(plan) ==
    IF plan.isCSnp \/ plan.isDSnp
    THEN [points |-> 15,
          reasons |-> <<IF plan.isCSnp THEN "C-SNP plan for chronic conditions"
                        ELSE "D-SNP plan for dual-eligible">>]
    ELSE [points |-> 0, reasons |-> <<>>]

Scored(plan, premium, moop, pcp, spec, snp) ==
    [score |-> 100 + premium.points + moop.points + pcp.points + spec.points
                   + snp.points,
     plan |-> plan,
     reasons |-> premium.reasons \o moop.reasons \o pcp.reasons
                     \o spec.reasons \o snp.reasons]

\* the callback of availablePlans.map(...)
ScorePlan(currentPlan, plan) ==
    Scored(plan,
           PremiumRule(currentPlan, plan),
           MoopRule(currentPlan, plan),
           CopayRule(currentPlan.primaryCareCopay, plan.primaryCareCopay,
                     "Lower primary care copay"),
           CopayRule(currentPlan.specialistCopay, plan.specialistCopay,
                     "Lower specialist copay"),
           SnpRule(plan))

\* a sort that is not stable: the order of plans of equal score depends on
\* the number of comparisons made before
RECURSIVE InsertScoredPlanUnstable(_, _)
InsertScoredPlanUnstable(sorted, m) ==
    IF Len(sorted) = 0 THEN <<m>>
    ELSE IF \/ Head(sorted).score < m.score
            \/ Head(sorted).score = m.score /\ Len(planComparisons) % 2 = 1
         THEN <<m>> \o sorted
         ELSE <<Head(sorted)>> \o InsertScoredPlanUnstable(Tail(sorted), m)

\* scoredPlans.sort((a, b) => b.score - a.score): stable, by non-increasing score
RECURSIVE InsertScoredPlan(_, _)
InsertScoredPlan(sorted, m) ==
    IF Len(sorted) = 0 THEN <<m>>
    ELSE IF Head(sorted).score < m.score THEN <<m>> \o sorted
         ELSE <<Head(sorted)>> \o InsertScoredPlan(Tail(sorted), m)

\* no sort at all: the plans in catalog order
Unsorted(ms) == ms

RECURSIVE SortScoredPlans(_)
SortScoredPlans(ms) ==
    IF Len(ms) = 0 THEN <<>>
    ELSE InsertScoredPlan(SortScoredPlans(SubSeq(ms, 1, Len(ms) - 1)), ms[Len(ms)])

TopCount == 3

\* scoredPlans.slice(0, 3)
Slice(q, n) == SubSeq(q, 1, IF Len(q) < n THEN Len(q) ELSE n)

\* top3[i]?.plan.id || null
TopPlanId(top3, i) == IF i <= Len(top3) THEN top3[i].plan.id ELSE NullId

\* storage.getPlan(id): the rows with that id whose carrier exists
getPlan(allPlans, cs, id) ==
    {k \in 1..Len(allPlans) :
        /\ allPlans[k].id = id
        /\ \E c \in 1..Len(cs) : cs[c].id = allPlans[k].carrierId}

RecommendedPlan(cs, scored) ==
    [id |-> scored.plan.id,
     name |-> scored.plan.name,
     carrierId |-> scored.plan.carrierId,
     carrierName |-> CarrierNameOf(cs, scored.plan),
     score |-> scored.score,
     reasons |-> scored.reasons]

ErrorOutcome(status, message) ==
    [status |-> status, body |-> [error |-> message], insert |-> <<>>]

CurrentPlanData(cs, currentPlan) ==
    [id |-> currentPlan.id,
     name |-> currentPlan.name,
     carrierId |-> currentPlan.carrierId,
     carrierName |-> CarrierNameOf(cs, currentPlan)]

RecommendedPlans(cs, top3) ==
    [k \in 1..Len(top3) |-> RecommendedPlan(cs, top3[k])]

\* the response and the row handed to storage.createPlanComparison, for
\* the ranked plans top3 out of `considered` available plans; the row's
\* comparisonData is the object that JSON.stringify serialises
ComparisonReply(client, currentPlan, cs, comparisonId, considered, top3) ==
    [status |-> 200,
     body |-> [currentPlan |-> CurrentPlanData(cs, currentPlan),
               comparisonId |-> comparisonId,
               recommendedPlans |-> RecommendedPlans(cs, top3)],
     insert |-> << [id |-> comparisonId,
                    clientId |-> client.id,
                    currentPlanId |-> currentPlan.id,
                    recommendedPlan1Id |-> TopPlanId(top3, 1),
                    recommendedPlan2Id |-> TopPlanId(top3, 2),
                    recommendedPlan3Id |-> TopPlanId(top3, 3),
                    totalPlansConsidered |-> considered,
                    topScores |-> [k \in 1..Len(top3) |->
                                      [score |-> top3[k].score,
                                       planId |-> top3[k].plan.id]],
                    comparisonData |->
                        [currentPlan |-> CurrentPlanData(cs, currentPlan),
                         recommendedPlans |-> RecommendedPlans(cs, top3)]] >>]

\* scoring, sort and slice of the available plans
Top3(currentPlan, availablePlans) ==
    Slice(SortScoredPlans([k \in 1..Len(availablePlans) |->
                              ScorePlan(currentPlan, availablePlans[k])]),
          TopCount)

ComparisonFor(client, currentPlan, cs, comparisonId, availablePlans) ==
    ComparisonReply(client, currentPlan, cs, comparisonId, Len(availablePlans),
                    Top3(currentPlan, availablePlans))

\* the comparison of a client whose current plan was found
ComparisonOf(client, currentPlan, allPlans, cs, comparisonId) ==
    ComparisonFor(client, currentPlan, cs, comparisonId,
                  SelectSeq(allPlans,
                            LAMBDA plan : IsAvailable(client, currentPlan, plan)))

\* the current plan of the client, or the 404 when storage.getPlan finds none
WithCurrentPlan(client, current, allPlans, cs, comparisonId) ==
    IF current = {} THEN ErrorOutcome(404, "Current plan not found")
    ELSE ComparisonOf(client, allPlans[CHOOSE k \in current : TRUE],
                      allPlans, cs, comparisonId)

\* the checks on the client row
WithClient(client, allPlans, cs, comparisonId) ==
    IF client.county = Null \/ client.county = ""
    THEN ErrorOutcome(400, "Client must have county specified")
    ELSE IF client.currentPlanId = NullId
    THEN ErrorOutcome(400, "Client must have current plan specified")
    ELSE WithCurrentPlan(client, getPlan(allPlans, cs, client.currentPlanId),
                         allPlans, cs, comparisonId)

\* storage.getClient(id): the rows with that id
getClient(clientRows, id) == {k \in 1..Len(clientRows) : clientRows[k].id = id}

WithClientId(id, clientRows, allPlans, cs, comparisonId) ==
    IF id.nan THEN ErrorOutcome(400, "Invalid client ID")
    ELSE IF getClient(clientRows, id.value) = {}
    THEN ErrorOutcome(404, "Client not found")
    ELSE WithClient(clientRows[CHOOSE k \in getClient(clientRows, id.value) : TRUE],
                    allPlans, cs, comparisonId)

\* the handler, from parseInt(req.params.id) to the response, when no
\* storage call rejects
CompareOutcome(idParam, clientRows, allPlans, cs, comparisonId) ==
    WithClientId(parseInt(idParam), clientRows, allPlans, cs, comparisonId)

ComparePlanPool ==
    << [id |-> 21, name |-> "Advantage Basic", carrierId |-> 1, maxOutOfPocket |-> "6000.00",
        stateCode |-> "WA", counties |-> Array(<<"King", "Pierce">>), monthlyPremium |-> "75.50",
        isCSnp |-> FALSE, isDSnp |-> FALSE,
        primaryCareCopay |-> "20.00", specialistCopay |-> "40.00"],
       [id |-> 22, name |-> "Advantage Plus", carrierId |-> 2, maxOutOfPocket |-> "4500.00",
        stateCode |-> "WA", counties |-> Array(<<"King">>), monthlyPremium |-> "0.00",
        isCSnp |-> FALSE, isDSnp |-> TRUE,
        primaryCareCopay |-> "0.00", specialistCopay |-> "35.00"],
       [id |-> 23, name |-> "Choice PPO", carrierId |-> 2, maxOutOfPocket |-> Null,
        stateCode |-> "WA", counties |-> Array(<<"King">>), monthlyPremium |-> Null,
        isCSnp |-> FALSE, isDSnp |-> FALSE,
        primaryCareCopay |-> Null, specialistCopay |-> Null],
       [id |-> 24, name |-> "Choice Select", carrierId |-> 3, maxOutOfPocket |-> "3000.00",
        stateCode |-> "OR", counties |-> Array(<<"King">>), monthlyPremium |-> "0.00",
        isCSnp |-> FALSE, isDSnp |-> FALSE,
        primaryCareCopay |-> "0.00", specialistCopay |-> "0.00"],
       [id |-> 25, name |-> "Essential", carrierId |-> 3, maxOutOfPocket |-> "3000.00",
        stateCode |-> "WA", counties |-> NullArray, monthlyPremium |-> "0.00",
        isCSnp |-> FALSE, isDSnp |-> FALSE,
        primaryCareCopay |-> "0.00", specialistCopay |-> "0.00"],
       [id |-> 26, name |-> "Premier", carrierId |-> 1, maxOutOfPocket |-> "6000.00",
        stateCode |-> "WA", counties |-> Array(<<"King", "Snohomish">>), monthlyPremium |-> "100.00",
        isCSnp |-> TRUE, isDSnp |-> TRUE,
        primaryCareCopay |-> "20.00", specialistCopay |-> "40.00"],
       [id |-> 27, name |-> "Value", carrierId |-> 1, maxOutOfPocket |-> "6000.00",
        stateCode |-> "WA", counties |-> Array(<<"Pierce", "King">>), monthlyPremium |-> "50.00",
        isCSnp |-> FALSE, isDSnp |-> FALSE,
        primaryCareCopay |-> "25.00", specialistCopay |-> "40.00"],
       [id |-> 28, name |-> "Vista Base", carrierId |-> 1, maxOutOfPocket |-> "6000.00",
        stateCode |-> "WA", counties |-> Array(<<"King">>), monthlyPremium |-> "120.00",
        isCSnp |-> FALSE, isDSnp |-> FALSE,
        primaryCareCopay |-> "20.00", specialistCopay |-> "40.00"],
       [id |-> 29, name |-> "Vista Extra", carrierId |-> 2, maxOutOfPocket |-> "7000.00",
        stateCode |-> "WA", counties |-> Array(<<"King">>), monthlyPremium |-> "135.00",
        isCSnp |-> FALSE, isDSnp |-> FALSE,
        primaryCareCopay |-> "20.00", specialistCopay |-> "40.00"],
       [id |-> 30, name |-> "Vista Saver", carrierId |-> 3, maxOutOfPocket |-> "5000.00",
        stateCode |-> "WA", counties |-> Array(<<"King">>), monthlyPremium |-> "60.00",
        isCSnp |-> FALSE, isDSnp |-> FALSE,
        primaryCareCopay |-> "20.00", specialistCopay |-> "40.00"],
       [id |-> 31, name |-> "West Local", carrierId |-> 3, maxOutOfPocket |-> "3000.00",
        stateCode |-> "WA", counties |-> Array(<<" king ", "PIERCE">>), monthlyPremium |-> "0.00",
        isCSnp |-> FALSE, isDSnp |-> FALSE,
        primaryCareCopay |-> "0.00", specialistCopay |-> "0.00"],
       [id |-> 32, name |-> "Zenith High", carrierId |-> 2, maxOutOfPocket |-> "1000000.00",
        stateCode |-> "WA", counties |-> Array(<<"King">>), monthlyPremium |-> "32.20",
        isCSnp |-> FALSE, isDSnp |-> FALSE,
        primaryCareCopay |-> "20.00", specialistCopay |-> "40.00"],
       [id |-> 33, name |-> "Zenith Low", carrierId |-> 2, maxOutOfPocket |-> "999999.00",
        stateCode |-> "WA", counties |-> Array(<<"King">>), monthlyPremium |-> "12.20",
        isCSnp |-> FALSE, isDSnp |-> FALSE,
        primaryCareCopay |-> "20.00", specialistCopay |-> "40.00"] >>

\* the response and the insert of outcome out, or the catch block
CompareRespond(out) ==
    \/ /\ response' = [status |-> out.status, body |-> out.body]
       /\ planComparisons' = planComparisons \o out.insert
    \/ \* a storage call rejects
       /\ ~parseInt(param).nan
       /\ response' = [status |-> 500,
                       body |-> [error |-> "Failed to generate comparison"]]
       /\ UNCHANGED planComparisons

\* the plan_comparisons rows up to which requests are followed
MaxComparisons == 2

\* a request arrives, the first or one after an earlier request was answered
CompareRequest(idParam) ==
    /\ pc \in {"idle", "responded"}
    /\ Len(planComparisons) < MaxComparisons
    /\ param' = idParam
    /\ response' = NoResponse
    /\ pc' = "compare:start"
    /\ UNCHANGED <<clients, planComparisons, database, files, tmpDir, docsDir,
                   planDocuments, uploadedFiles, results, parseVars, extractVars,
                   assignVars>>

\* the handler of POST /api/clients/:id/compare
CompareHandle ==
    /\ pc = "compare:start"
    /\ CompareRespond(CompareOutcome(param, clients,
                                     getAllPlans(ComparePlanPool, database.years),
                                     getAllCarriers(database.rows),
                                     Len(planComparisons) + 1))
    /\ pc' = "responded"
    /\ UNCHANGED <<clients, param, database, files, tmpDir, docsDir,
                   planDocuments, uploadedFiles, results, parseVars, extractVars,
                   assignVars>>

(***************************************************************************)
(* POST /api/staged-documents/:id/assign and                               *)
(* storage.assignStagedDocumentToPlan.  Each request is a call of           *)
(* assignCalls; the three storage statements of a call are separate steps, *)
(* as each is awaited on its own.                                          *)
(***************************************************************************)
MaxCalls == 2

\* a request that has not arrived
IdleCall ==
    [response |-> NoResponse,
     phase |-> "idle", stagedId |-> NullId, staged |-> {}, planDoc |-> {},
     before |-> [staged |-> {}, planDocs |-> <<>>]]

AssignError(status, message) == [status |-> status, body |-> [error |-> message]]

\* the call ends with the response r
Responded(call, r) == [call EXCEPT !.phase = "done", !.response = r]

\* the catch block of the route
AssignFailed(call) == Responded(call, AssignError(500, "Failed to assign document"))

\* storage.getStagedDocument: the rows with the id, none or one
getStagedDocument(rows, id) == {d \in rows : d.id = id}

\* !staged || !staged.planId || !staged.documentType
CannotAssign(found) ==
    \/ found = {}
    \/ \E d \in found : d.planId = NullId \/ d.documentType \in {Null, ""}

\* v || 0, v a number or null
OrZero(v) == IF v = NullId THEN 0 ELSE v

\* a plan document that receives the id of the staged row in place of the
\* id of its plan
AssignedToStagedId(d, newId) ==
    [filePath |-> d.filePath,
     id |-> newId,
     documentType |-> d.documentType,
     fileName |-> OrDefault(d.displayName, d.originalName),
     planId |-> d.id,
     fileSize |-> OrZero(d.fileSize)]

\* the row createPlanDocument inserts for the staged document d
AssignedPlanDocument(d, newId) ==
    [filePath |-> d.filePath,
     id |-> newId,
     documentType |-> d.documentType,
     fileName |-> OrDefault(d.displayName, d.originalName),
     planId |-> d.planId,
     fileSize |-> OrZero(d.fileSize)]

assignFrame ==
    <<pc, parseVars, extractVars, compareVars, database, files, tmpDir, docsDir,
      uploadedFiles, results, response>>

\* the request arrives: the route parses the id and calls the storage
\* method, which sends its select
AssignRequest(c, idParam) ==
    /\ pc = "assign"
    /\ assignCalls[c].phase = "idle"
    /\ assignCalls' =
           [assignCalls EXCEPT ![c] =
               IF parseInt(idParam).nan
               THEN Responded(@, AssignError(400, "Invalid document ID"))
               ELSE [@ EXCEPT !.phase = "select",
                              !.stagedId = parseInt(idParam).value,
                              !.before = [staged |-> stagedDocuments,
                                          planDocs |-> planDocuments]]]
    /\ UNCHANGED <<stagedDocuments, planDocuments, assignFrame>>

\* getStagedDocument answers, or rejects
AssignSelect(c) ==
    /\ assignCalls[c].phase = "select"
    /\ \/ assignCalls' = [assignCalls EXCEPT ![c] = AssignFailed(@)]
       \/ assignCalls' =
              [assignCalls EXCEPT ![c] =
                  IF CannotAssign(getStagedDocument(stagedDocuments, @.stagedId))
                  THEN Responded(@, AssignError(400,
                           "Cannot assign: missing plan ID or document type"))
                  ELSE [@ EXCEPT !.phase = "insert",
                                 !.staged = getStagedDocument(
                                                stagedDocuments,
                                                assignCalls[c].stagedId)]]
    /\ UNCHANGED <<stagedDocuments, planDocuments, assignFrame>>

\* createPlanDocument inserts the row, or rejects
AssignInsert(c) ==
    /\ assignCalls[c].phase = "insert"
    /\ \/ /\ assignCalls' = [assignCalls EXCEPT ![c] = AssignFailed(@)]
          /\ UNCHANGED planDocuments
       \/ \E d \in assignCalls[c].staged :
              /\ planDocuments' =
                     Append(planDocuments,
                            AssignedPlanDocument(d, Len(planDocuments) + 1))
              /\ assignCalls' =
                     [assignCalls EXCEPT ![c] =
                         [@ EXCEPT !.phase = "delete",
                                   !.planDoc = {AssignedPlanDocument(
                                                    d, Len(planDocuments) + 1)}]]
    /\ UNCHANGED <<stagedDocuments, assignFrame>>

\* deleteStagedDocument removes the row if it is still there and the route
\* answers with the plan document, or the delete rejects
AssignDelete(c) ==
    /\ assignCalls[c].phase = "delete"
    /\ \/ /\ assignCalls' = [assignCalls EXCEPT ![c] = AssignFailed(@)]
          /\ UNCHANGED stagedDocuments
       \/ /\ stagedDocuments' =
                 {d \in stagedDocuments : d.id # assignCalls[c].stagedId}
          /\ assignCalls' =
                 [assignCalls EXCEPT ![c] =
                     Responded(@, [status |-> 200,
                                   body |-> CHOOSE r \in @.planDoc : TRUE])]
    /\ UNCHANGED <<planDocuments, assignFrame>>

(***************************************************************************)
(* Document texts: up to MaxFragments phrases, separated by a blank        *)
(***************************************************************************)
MaxFragments == 2

TextFragments ==
    { "Aetna Medicare", "Blue", "Cross", "united health",
      "Gold Plus Value", "Gold Value", "Gold Plus", "H1234-001",
      "Summary of Benefits", "Formulary EOC" }

RECURSIVE TextsOfLength(_)
TextsOfLength(n) ==
    IF n = 0 THEN {""}
    ELSE IF n = 1 THEN TextFragments
    ELSE {t \o " " \o f : t \in TextsOfLength(n - 1), f \in TextFragments}

Texts == UNION {TextsOfLength(n) : n \in 0..MaxFragments}

(***************************************************************************)
(* The variables of the operations a specification leaves out              *)
(***************************************************************************)
ExtractUnused ==
    /\ filePath = ""
    /\ content = [text |-> "", readable |-> FALSE]
    /\ extraction = NotCalled

OcrUnused ==
    /\ database = EmptyDatabase
    /\ files = <<>>
    /\ tmpDir = {}
    /\ docsDir = {}
    /\ planDocuments = <<>>
    /\ uploadedFiles = <<>>
    /\ results = <<>>
    /\ response = NoResponse

ParseUnused ==
    /\ text = ""
    /\ carriers = <<>>
    /\ plans = <<>>
    /\ extracted = NoResult

CompareUnused ==
    /\ clients = <<>>
    /\ param = ""
    /\ planComparisons = <<>>

AssignUnused ==
    /\ stagedDocuments = {}
    /\ assignCalls = <<>>

(***************************************************************************)
(* Specification SpecParse: parsePlanDocumentText on every text and        *)
(* catalog                                                                 *)
(***************************************************************************)
InitParse ==
    /\ pc = "parse"
    /\ text \in Texts
    /\ \E d \in Databases :
           /\ carriers = getAllCarriers(d.rows)
           /\ plans = getAllPlans(PlanPool, d.years)
    /\ extracted = NoResult
    /\ ExtractUnused
    /\ OcrUnused
    /\ CompareUnused
    /\ AssignUnused

Parse ==
    /\ pc = "parse"
    /\ extracted' = parsePlanDocumentText(text, carriers, plans)
    /\ pc' = "parsed"
    /\ UNCHANGED <<text, carriers, plans, extractVars, ocrVars, compareVars, assignVars>>

vars == <<pc, parseVars, extractVars, ocrVars, compareVars, assignVars>>

NextParse == Parse

SpecParse == InitParse /\ [][NextParse]_vars

(***************************************************************************)
(* Specification SpecClassify: parsePlanDocumentText on documents made of  *)
(* up to MaxKeywords document-type keywords, with or without benefit       *)
(* lines, against an empty and a full catalog                              *)
(***************************************************************************)
MaxKeywords == 2

\* every keyword of docTypePatterns, as documents spell them
KeywordPhrases ==
    { "Summary of Benefits", "summary of benefit", "SoB",
      "Evidence of Coverage", "EOC",
      "Annual Notice of Change", "Annual Notice of Changes", "anoc",
      "Provider Directory", "provider list", "Provider Network",
      "Drug Formulary", "Formulary", "Prescription Drug List",
      "Covered Drugs" }

RECURSIVE PhrasesOfLength(_)
PhrasesOfLength(n) ==
    IF n = 0 THEN {""}
    ELSE {t \o (IF t = "" THEN "" ELSE " ") \o f :
             t \in PhrasesOfLength(n - 1), f \in KeywordPhrases}

BenefitLines == {"", "\nMOOP: $3,400.00\nSilver & Fit", "\nmoop 250"}

ClassifyTexts ==
    {t \o b : t \in UNION {PhrasesOfLength(n) : n \in 0..MaxKeywords},
              b \in BenefitLines}

InitClassify ==
    /\ pc = "parse"
    /\ text \in ClassifyTexts
    /\ \E d \in {EmptyDatabase,
                  [rows |-> DOMAIN CarrierPool,
                   years |-> [k \in DOMAIN PlanPool |-> 2025]]} :
           /\ carriers = getAllCarriers(d.rows)
           /\ plans = getAllPlans(PlanPool, d.years)
    /\ extracted = NoResult
    /\ ExtractUnused
    /\ OcrUnused
    /\ CompareUnused
    /\ AssignUnused

SpecClassify == InitClassify /\ [][NextParse]_vars

(***************************************************************************)
(* Specification SpecExtract: extractTextFromDocument on files whose text  *)
(* is up to MaxMargin characters around the scanned-PDF threshold, with up *)
(* to MaxPad characters of white space on either side                      *)
(***************************************************************************)
MaxMargin == 2
MaxPad == 1

RECURSIVE Repeat(_, _)
Repeat(c, n) == IF n = 0 THEN "" ELSE c \o Repeat(c, n - 1)

TextLengths ==
    {0} \cup ((ScannedPdfMinChars - MaxMargin)..(ScannedPdfMinChars + MaxMargin))

PaddedTexts ==
    {Repeat(" ", a) \o Repeat("x", n) \o Repeat("\n", b) :
        a \in 0..MaxPad, n \in TextLengths, b \in 0..MaxPad}

\* multer's file names: field name, unique suffix, the original extension
UploadPaths ==
    {"/tmp/uploads/file-1" \o e : e \in {".pdf", ".PDF", ".jpg", ".png", ""}}

Contents == [text : PaddedTexts, readable : BOOLEAN]

InitExtract ==
    /\ pc = "extract"
    /\ filePath \in UploadPaths
    /\ content \in Contents
    /\ extraction = NotCalled
    /\ ParseUnused
    /\ OcrUnused
    /\ CompareUnused
    /\ AssignUnused

Extract ==
    /\ pc = "extract"
    /\ extraction' = extractTextFromDocument(filePath, content)
    /\ pc' = "extracted"
    /\ UNCHANGED <<filePath, content, parseVars, ocrVars, compareVars, assignVars>>

NextExtract == Extract

SpecExtract == InitExtract /\ [][NextExtract]_vars

(***************************************************************************)
(* Specification SpecOcr: one OCR request of up to MaxFiles files          *)
(***************************************************************************)
MaxFiles == 2

\* the texts of the uploaded documents
DocumentTexts ==
    { "", "  \n",
      "Blue",
      "Aetna Medicare Gold Value",
      "Aetna Medicare H1234-001",
      "Summary of Benefits Aetna Medicare H1234-001 Gold Plus plan" }

DocumentContents ==
    {[text |-> "", readable |-> FALSE]} \cup [text : DocumentTexts, readable : {TRUE}]

\* original name, declared MIME type and content of an uploaded file
UploadedDocuments ==
    [content : DocumentContents,
     originalname : {"sob.pdf"}, mimetype : {"application/pdf"}]
    \cup [content : DocumentContents,
          originalname : {"scan.JPG"}, mimetype : {"image/jpeg"}]
    \cup [content : {[text |-> "Blue", readable |-> TRUE]},
          originalname : {"notes.txt"}, mimetype : {"text/plain"}]

\* multer's diskStorage: uploadDir, field name, a unique suffix (here the
\* position in the request) and the extension of the original name
Stored(field, docs) ==
    [i \in 1..Len(docs) |->
        [content |-> docs[i].content,
         path |-> "/tmp/uploads/" \o field \o "-" \o ToString(i)
                      \o extname(docs[i].originalname),
         originalname |-> docs[i].originalname,
         mimetype |-> docs[i].mimetype]]

RECURSIVE SeqsOfLength(_, _)
SeqsOfLength(S, n) ==
    IF n = 0 THEN {<<>>}
    ELSE {Append(q, x) : q \in SeqsOfLength(S, n - 1), x \in S}

Requests == UNION {SeqsOfLength(UploadedDocuments, n) : n \in 0..MaxFiles}

\* every carrier, and the plans of one year
FullDatabase ==
    [rows |-> DOMAIN CarrierPool, years |-> [k \in DOMAIN PlanPool |-> 2025]]

InitOcr ==
    /\ pc = "idle"
    /\ database \in {EmptyDatabase, FullDatabase}
    /\ files = <<>>
    /\ tmpDir = {}
    /\ docsDir = {}
    /\ planDocuments = <<>>
    /\ uploadedFiles = <<>>
    /\ results = <<>>
    /\ response = NoResponse
    /\ ParseUnused
    /\ ExtractUnused
    /\ CompareUnused
    /\ AssignUnused

NextOcr ==
    \/ \E docs \in Requests : BatchRequest(Stored("files", docs))
    \/ BatchValidate
    \/ BatchLoadCatalogs
    \/ BatchProcessFile
    \/ BatchRespond
    \/ \E docs \in Requests : ProcessRequest(Stored("file", docs))
    \/ ProcessHandle

SpecOcr == InitOcr /\ [][NextOcr]_vars

(***************************************************************************)
(* Specification SpecCompare: one comparison request against every         *)
(* catalog drawn from ComparePlanPool and every client row                 *)
(***************************************************************************)
\* the plans that may also be on file for the later plan year
LaterYearPlans == {"Value"}

\* the plans of the catalogs that vary the first plans of ComparePlanPool,
\* and the one of them that the other catalogs may hold as well
FirstCatalogPlans == 21..27
SharedPlan == 23

\* the plans of one catalog are drawn either from the first plans of the
\* pool or from the others
CompareDatabases ==
    {d \in [rows : {DOMAIN CarrierPool},
            years : [DOMAIN ComparePlanPool -> PlanYears \cup {Absent}]] :
        /\ \A k \in DOMAIN ComparePlanPool :
               \/ d.years[k] = Absent
               \/ \A y \in PlanYears : d.years[k] <= y
               \/ ComparePlanPool[k].name \in LaterYearPlans
        /\ \/ \A k \in DOMAIN ComparePlanPool :
                  ComparePlanPool[k].id \notin FirstCatalogPlans
                      => d.years[k] = Absent
           \/ \A k \in DOMAIN ComparePlanPool :
                  ComparePlanPool[k].id \in FirstCatalogPlans \ {SharedPlan}
                      => d.years[k] = Absent}

\* clients.current_plan_id references plans.id
ClientRows(d) ==
    [id : {1},
     state : {"WA"},
     county : {Null, "King", "Pierce", "Snohomish"},
     currentPlanId : {NullId} \cup {ComparePlanPool[k].id :
                                       k \in {j \in DOMAIN ComparePlanPool :
                                                 d.years[j] # Absent}},
     usesMulticare : BOOLEAN]

IdParams == {"1", "2", "1st", "abc"}

InitCompare ==
    /\ pc = "idle"
    /\ database \in CompareDatabases
    /\ clients \in {<<c>> : c \in ClientRows(database)}
    /\ param = ""
    /\ planComparisons = <<>>
    /\ files = <<>>
    /\ tmpDir = {}
    /\ docsDir = {}
    /\ planDocuments = <<>>
    /\ uploadedFiles = <<>>
    /\ results = <<>>
    /\ response = NoResponse
    /\ ParseUnused
    /\ ExtractUnused
    /\ AssignUnused

NextCompare ==
    \/ \E idParam \in IdParams : CompareRequest(idParam)
    \/ CompareHandle

SpecCompare == InitCompare /\ [][NextCompare]_vars

(***************************************************************************)
(* Specifications SpecAssign and SpecAssignRace: up to MaxCalls assign     *)
(* requests on a staging table of up to two documents, one after the other *)
(* (SpecAssign) or interleaved (SpecAssignRace)                            *)
(***************************************************************************)
StagedPath(id) == IF id = 1 THEN "uploaded_documents/1700000000001-sob.pdf"
                  ELSE "uploaded_documents/1700000000002-eoc.pdf"

\* the rows staged document 1 can be after upload and metadata edits
FirstStagedRows ==
    {[filePath |-> StagedPath(1), id |-> 1, documentType |-> t, planId |-> p,
      displayName |-> n, originalName |-> "sob.pdf", fileSize |-> z] :
        t \in {Null, "", "SOB"}, p \in {NullId, 12},
        z \in {NullId, 2048}, n \in {Null, "Gold Value SOB"}}

SecondStagedRow ==
    [filePath |-> StagedPath(2), id |-> 2, documentType |-> "EOC", planId |-> 11,
     displayName |-> "", originalName |-> "eoc.pdf", fileSize |-> 4096]

\* a plan document saved earlier by the batch upload
EarlierPlanDocument ==
    [filePath |-> "uploaded_documents/11_SOB_1699999999999.pdf", id |-> 1,
     documentType |-> "SOB", fileName |-> "old.pdf", planId |-> 11,
     fileSize |-> 512]

AssignIdParams == {"1", "2", "abc"}

InitAssign ==
    /\ pc = "assign"
    /\ stagedDocuments \in
           {first \cup second : first \in {{}} \cup {{d} : d \in FirstStagedRows},
                                second \in {{}, {SecondStagedRow}}}
    /\ planDocuments \in {<<>>, <<EarlierPlanDocument>>}
    /\ assignCalls = [c \in 1..MaxCalls |-> IdleCall]
    /\ database = EmptyDatabase
    /\ files = <<>>
    /\ tmpDir = {}
    /\ docsDir = {}
    /\ uploadedFiles = <<>>
    /\ results = <<>>
    /\ response = NoResponse
    /\ ParseUnused
    /\ ExtractUnused
    /\ CompareUnused

NoCallUnderWay == \A c \in 1..MaxCalls : assignCalls[c].phase \in {"idle", "done"}

\* a request that arrives when every earlier one has been answered
AssignRequestInTurn(c, idParam) ==
    /\ NoCallUnderWay
    /\ AssignRequest(c, idParam)

NextAssign ==
    \/ \E c \in 1..MaxCalls, idParam \in AssignIdParams :
           AssignRequestInTurn(c, idParam)
    \/ \E c \in 1..MaxCalls : AssignSelect(c)
    \/ \E c \in 1..MaxCalls : AssignInsert(c)
    \/ \E c \in 1..MaxCalls : AssignDelete(c)

SpecAssign == InitAssign /\ [][NextAssign]_vars

\* requests arrive at any time
NextAssignRace ==
    \/ \E c \in 1..MaxCalls, idParam \in AssignIdParams : AssignRequest(c, idParam)
    \/ \E c \in 1..MaxCalls : AssignSelect(c)
    \/ \E c \in 1..MaxCalls : AssignInsert(c)
    \/ \E c \in 1..MaxCalls : AssignDelete(c)

SpecAssignRace == InitAssign /\ [][NextAssignRace]_vars

(***************************************************************************)
(* Properties of POST /api/clients/:id/compare (checked under SpecCompare) *)
(***************************************************************************)
Compared == pc = "responded" /\ response.status = 200

\* the current plan of the client the request names
RequestedClientPlanIds ==
    {clients[k].currentPlanId :
        k \in {j \in 1..Len(clients) : clients[j].id = parseInt(param).value}}

\* C1: after a successful comparison the id of the client's current plan is
\* not the id of any plan of the returned recommendedPlans, nor any of the
\* recommendedPlan1Id/2Id/3Id stored with the comparison.
SelfExclusion ==
    Compared =>
        \A cur \in RequestedClientPlanIds :
            /\ \A k \in 1..Len(response.body.recommendedPlans) :
                   response.body.recommendedPlans[k].id # cur
            /\ \A r \in 1..Len(planComparisons) :
                   /\ planComparisons[r].currentPlanId = cur
                   /\ planComparisons[r].recommendedPlan1Id # cur
                   /\ planComparisons[r].recommendedPlan2Id # cur
                   /\ planComparisons[r].recommendedPlan3Id # cur

\* a comparison that returned three plans for a client whose current plan is
\* itself offered in the client's state and county
SelfExclusionWitness ==
    /\ Compared
    /\ Len(response.body.recommendedPlans) = 3
    /\ Len(planComparisons) = 1
    /\ planComparisons[1].recommendedPlan3Id # NullId
    /\ \E k \in DOMAIN ComparePlanPool :
           /\ ComparePlanPool[k].id = clients[1].currentPlanId
           /\ ComparePlanPool[k].stateCode = clients[1].state
           /\ ArrayIncludes(ComparePlanPool[k].counties.items, clients[1].county)

RequestedClient ==
    clients[CHOOSE k \in 1..Len(clients) : clients[k].id = parseInt(param).value]

PoolRow(id) ==
    ComparePlanPool[CHOOSE k \in DOMAIN ComparePlanPool : ComparePlanPool[k].id = id]

CurrentRow == PoolRow(RequestedClient.currentPlanId)

Recs == response.body.recommendedPlans

RecIds == {Recs[k].id : k \in 1..Len(Recs)}

StoredComparison == planComparisons[Len(planComparisons)]

CatalogIds ==
    {ComparePlanPool[k].id :
        k \in {j \in DOMAIN ComparePlanPool : database.years[j] # Absent}}

\* an amount on record, or the amount d when there is none
Amount(v, d) == parseFloat(IF v = Null THEN d ELSE v)

HasReason(r, part) == \E i \in 1..Len(r.reasons) : Includes(r.reasons[i], part)

MoopBonus(r) == HasReason(r, "Lower max out-of-pocket by $")
PcpBonus(r) == HasReason(r, "Lower primary care copay")
SpecBonus(r) == HasReason(r, "Lower specialist copay")
SnpBonus(r) == HasReason(r, "SNP plan for")

\* what the premium rule contributed to the score of r: the score less the
\* base and the points of the other rules, each of which gives its reason
PremiumContribution(r) ==
    r.score - 100
        - (IF MoopBonus(r) THEN 30 ELSE 0)
        - (IF PcpBonus(r) THEN 10 ELSE 0)
        - (IF SpecBonus(r) THEN 10 ELSE 0)
        - (IF SnpBonus(r) THEN 15 ELSE 0)

PremiumReasonCount(r) ==
    Cardinality({i \in 1..Len(r.reasons) :
                    \/ Includes(r.reasons[i], "/month on premium")
                    \/ Includes(r.reasons[i], "Higher premium by $")})

\* current premium minus candidate premium, in exact decimal arithmetic
ExactSavings(r) ==
    FracSub(Amount(CurrentRow.monthlyPremium, "0"),
            Amount(PoolRow(r.id).monthlyPremium, "0"))

\* the points the premium table gives for savings s
TablePoints(s) ==
    IF FracLt(Whole(50), s) THEN 40
    ELSE IF FracLt(Whole(20), s) THEN 25
    ELSE IF FracLt(Whole(0), s) THEN 10
    ELSE IF FracLt(s, Whole(0 - 20)) THEN 0 - 20
    ELSE 0

\* the sample scenario: current plan with premium 120 and MOOP 6000,
\* candidate A with premium 60, MOOP 5000 and no SNP, candidate B with
\* premium 135 and MOOP 7000
IsSampleCurrent(row) ==
    row.monthlyPremium = "120.00" /\ row.maxOutOfPocket = "6000.00"

IsCandidateA(row) ==
    /\ row.monthlyPremium = "60.00" /\ row.maxOutOfPocket = "5000.00"
    /\ ~row.isCSnp /\ ~row.isDSnp

IsCandidateB(row) ==
    row.monthlyPremium = "135.00" /\ row.maxOutOfPocket = "7000.00"

SampleRanked(scoreA, scoreB) ==
    (Compared /\ IsSampleCurrent(CurrentRow)) =>
        \A i, j \in 1..Len(Recs) :
            (IsCandidateA(PoolRow(Recs[i].id)) /\ IsCandidateB(PoolRow(Recs[j].id)))
            => /\ Recs[i].score = scoreA
               /\ Recs[j].score = scoreB
               /\ i < j

\* C13 as stated: in the sample scenario A scores 170, B scores 80 and A
\* ranks above B.
SampleScenarioAsStated == SampleRanked(170, 80)

\* C13, amended: in the sample scenario A scores 170, B scores 100 (a premium
\* higher by 15 is not higher by more than 20, so B gets no penalty) and A
\* ranks above B.
SampleScenario == SampleRanked(170, 100)

SampleScenarioWitness ==
    /\ Compared /\ IsSampleCurrent(CurrentRow)
    /\ Len(Recs) >= 2
    /\ IsCandidateA(PoolRow(Recs[1].id))
    /\ \E j \in 2..Len(Recs) : IsCandidateB(PoolRow(Recs[j].id))
    /\ Recs[1].reasons = <<"Saves $60.00/month on premium",
                           "Lower max out-of-pocket by $1000">>

\* C14: a plan whose counties are absent or do not contain the client's
\* county, or whose stateCode is not the client's state, is not among the
\* recommended plans nor among the stored recommendedPlan1Id/2Id/3Id.
CountyAndStateFilter ==
    Compared =>
        \A id \in RecIds \cup ({StoredComparison.recommendedPlan1Id,
                               StoredComparison.recommendedPlan2Id,
                               StoredComparison.recommendedPlan3Id} \ {NullId}) :
            /\ PoolRow(id).stateCode = RequestedClient.state
            /\ ~PoolRow(id).counties.null
            /\ \E c \in 1..Len(PoolRow(id).counties.items) :
                   PoolRow(id).counties.items[c] = RequestedClient.county

\* the client of Snohomish county gets no recommendation while the catalog
\* holds cheaper plans of other counties, of no county list and of another
\* state
CountyAndStateFilterWitness ==
    /\ Compared
    /\ RequestedClient.county = "Snohomish"
    /\ CurrentRow.monthlyPremium = "100.00"
    /\ Recs = <<>>
    /\ \E a, b, c \in CatalogIds :
           /\ PoolRow(a).counties = Array(<<"King", "Pierce">>)
           /\ PoolRow(a).monthlyPremium = "75.50"
           /\ PoolRow(b).counties.null /\ PoolRow(b).monthlyPremium = "0.00"
           /\ PoolRow(c).stateCode = "OR" /\ PoolRow(c).monthlyPremium = "0.00"

\* the plans of the client's state, other than the current plan, that list
\* the client's county up to letter case and surrounding white space
NormalisedCandidates ==
    {id \in CatalogIds :
        /\ PoolRow(id).stateCode = RequestedClient.state
        /\ ~PoolRow(id).counties.null
        /\ \E c \in 1..Len(PoolRow(id).counties.items) :
               toLowerCase(trim(PoolRow(id).counties.items[c]))
                   = toLowerCase(trim(RequestedClient.county))
        /\ id # CurrentRow.id}

\* C15: the comparison keeps as candidates the plans of the client's state
\* that list the client's county up to letter case and surrounding white
\* space.
CountyFilterNormalised ==
    Compared =>
        /\ StoredComparison.totalPlansConsidered = Cardinality(NormalisedCandidates)
        /\ Cardinality(NormalisedCandidates) <= 3 => RecIds = NormalisedCandidates

\* C17: the premium rule contributes +40, +25, +10, -20 or nothing according
\* to s = current premium minus candidate premium (s > 50; 20 < s <= 50;
\* 0 < s <= 20; s < -20; -20 <= s <= 0), with one premium reason in the
\* first four cases and none in the last.
PremiumRuleTable ==
    Compared =>
        \A k \in 1..Len(Recs) :
            /\ PremiumContribution(Recs[k]) = TablePoints(ExactSavings(Recs[k]))
            /\ PremiumReasonCount(Recs[k])
                   = IF TablePoints(ExactSavings(Recs[k])) = 0 THEN 0 ELSE 1

\* the MOOP rule with a missing amount read as 999999; `always` says whether
\* a candidate without a MOOP on record is denied the bonus whatever the
\* current plan's MOOP is
MissingMoop(always) ==
    Compared =>
        \A k \in 1..Len(Recs) :
            /\ (/\ CurrentRow.maxOutOfPocket = Null
                /\ PoolRow(Recs[k].id).maxOutOfPocket # Null
                /\ FracLt(Amount(PoolRow(Recs[k].id).maxOutOfPocket, "0"),
                          Whole(999999)))
               => MoopBonus(Recs[k])
            /\ PoolRow(Recs[k].id).maxOutOfPocket = Null
               => (MoopBonus(Recs[k])
                      <=> /\ ~always
                          /\ FracLt(Whole(999999),
                                    Amount(CurrentRow.maxOutOfPocket, "0")))

\* C18 as stated: a candidate without a MOOP on record never receives the
\* MOOP bonus, whatever the current plan's MOOP is.
MissingMoopAsStated == MissingMoop(TRUE)

\* C18, amended: with no MOOP on record for the current plan every candidate
\* with a MOOP below 999999 receives the MOOP bonus; a candidate without a
\* MOOP on record receives it exactly when the current plan's MOOP is above
\* 999999.
MissingMoopIs999999 == MissingMoop(FALSE)

\* the current plan has no MOOP on record: a candidate with a MOOP of 5000
\* has the bonus, one with a MOOP of 999999 has not
MissingMoopWitness ==
    /\ Compared
    /\ CurrentRow.maxOutOfPocket = Null
    /\ \E i, j \in 1..Len(Recs) :
           /\ PoolRow(Recs[i].id).maxOutOfPocket = "5000.00"
           /\ MoopBonus(Recs[i])
           /\ PoolRow(Recs[j].id).maxOutOfPocket = "999999.00"
           /\ ~MoopBonus(Recs[j])

\* C19: a missing premium or copay counts as 0: a candidate without a copay
\* on record has the copay bonus when the current plan's copay is positive,
\* no candidate has it when the current plan's copay is missing or 0, and a
\* candidate without a premium on record saves the whole current premium.
MissingAmountIsZero ==
    Compared =>
        \A k \in 1..Len(Recs) :
            LET row == PoolRow(Recs[k].id)
            IN  /\ (/\ row.primaryCareCopay = Null
                    /\ FracLt(Whole(0), Amount(CurrentRow.primaryCareCopay, "0")))
                   => PcpBonus(Recs[k])
                /\ (/\ row.specialistCopay = Null
                    /\ FracLt(Whole(0), Amount(CurrentRow.specialistCopay, "0")))
                   => SpecBonus(Recs[k])
                /\ FracEq(Amount(CurrentRow.primaryCareCopay, "0"), Whole(0))
                   => ~PcpBonus(Recs[k])
                /\ FracEq(Amount(CurrentRow.specialistCopay, "0"), Whole(0))
                   => ~SpecBonus(Recs[k])
                /\ (/\ row.monthlyPremium = Null
                    /\ FracLt(Whole(0), Amount(CurrentRow.monthlyPremium, "0")))
                   => HasReason(Recs[k],
                                "Saves $" \o toFixed(Amount(CurrentRow.monthlyPremium,
                                                            "0"), 2)
                                    \o "/month on premium")
                /\ CurrentRow.monthlyPremium = Null
                   => ~HasReason(Recs[k], "/month on premium")

\* a candidate with no amount on record, compared with a current plan of
\* premium 75.50 and copays 20 and 40
MissingAmountIsZeroWitness ==
    /\ Compared
    /\ CurrentRow.monthlyPremium = "75.50"
    /\ CurrentRow.primaryCareCopay = "20.00"
    /\ \E k \in 1..Len(Recs) :
           /\ PoolRow(Recs[k].id).primaryCareCopay = Null
           /\ PoolRow(Recs[k].id).monthlyPremium = Null
           /\ Recs[k].score = 160
           /\ Recs[k].reasons = <<"Saves $75.50/month on premium",
                                  "Lower primary care copay",
                                  "Lower specialist copay">>

\* the catalog plans that pass the filter
Candidates ==
    {id \in CatalogIds : IsAvailable(RequestedClient, CurrentRow, PoolRow(id))}

\* C20: the recommended plans are min(3, number of candidates) distinct
\* candidates in order of non-increasing score, and no candidate left out
\* scores more than one in the list.
TopThreeRanked ==
    Compared =>
        /\ Len(Recs) = (IF Cardinality(Candidates) < 3
                        THEN Cardinality(Candidates) ELSE 3)
        /\ RecIds \subseteq Candidates
        /\ Cardinality(RecIds) = Len(Recs)
        /\ \A i, j \in 1..Len(Recs) : i < j => Recs[i].score >= Recs[j].score
        /\ \A id \in Candidates \ RecIds :
               \A k \in 1..Len(Recs) :
                   ScorePlan(CurrentRow, PoolRow(id)).score <= Recs[k].score

\* five candidates of four different scores, the two lowest left out
TopThreeRankedWitness ==
    /\ Compared
    /\ Cardinality(Candidates) = 5
    /\ Len(Recs) = 3
    /\ Recs[1].score > Recs[2].score
    /\ Recs[2].score > Recs[3].score
    /\ \E id \in Candidates \ RecIds :
           ScorePlan(CurrentRow, PoolRow(id)).score < Recs[3].score

(***************************************************************************)
(* Properties of parsePlanDocumentText (checked under SpecParse)           *)
(***************************************************************************)
Parsed == pc = "parsed"
BothMatched == extracted.carrier # NoCarrier /\ extracted.plan # NoPlan
CarriersAgree == extracted.plan.carrierId = extracted.carrier.id

\* the score listed in carrierMatches for the matched carrier
OwnCarrierScore ==
    LET ms == extracted.carrierMatches
    IN  ms[CHOOSE i \in 1..Len(ms) : ms[i].name = extracted.carrier.name].score

\* the score listed in planMatches for the matched plan
OwnPlanScore ==
    LET ms == extracted.planMatches
    IN  ms[CHOOSE i \in 1..Len(ms) : ms[i].name = extracted.plan.name].score

\* C3 as stated: a result with a matched carrier, a matched plan and
\* confidence >= 40 has plan.carrierId = carrier.id.
CarrierConsistencyAt40 ==
    (Parsed /\ BothMatched /\ extracted.confidence >= 40) => CarriersAgree

\* C3, amended: a result with a matched carrier, a matched plan and
\* confidence above 70 has plan.carrierId = carrier.id (a cross-carrier result
\* carries at most round(100 * 0.7) = 70).
CarrierConsistencyAbove70 ==
    (Parsed /\ BothMatched /\ extracted.confidence > 70) => CarriersAgree

CarrierConsistencyWitness ==
    Parsed /\ BothMatched /\ extracted.confidence > 70 /\ CarriersAgree

\* C6: the returned confidence is an integer between 0 and 100.
ConfidenceBounded ==
    Parsed => extracted.confidence \in 0..100

ConfidenceBoundedWitness ==
    Parsed /\ extracted.confidence = 100

\* C7: confidence > 0 only when a carrier or a plan was matched; with neither
\* matched it is 0, whatever the candidates' scores.
ConfidenceNeedsMatch ==
    (Parsed /\ extracted.confidence > 0) =>
        (extracted.carrier # NoCarrier \/ extracted.plan # NoPlan)

ConfidenceNeedsMatchWitness ==
    /\ Parsed
    /\ extracted.carrier = NoCarrier /\ extracted.plan = NoPlan
    /\ extracted.confidence = 0
    /\ \/ \E i \in 1..Len(extracted.carrierMatches) :
              FracLt(Whole(0), extracted.carrierMatches[i].score)
       \/ \E i \in 1..Len(extracted.planMatches) :
              FracLt(Whole(0), extracted.planMatches[i].score)

\* C8: with a matched carrier and a matched plan of that carrier, confidence
\* is the rounded average of the matched carrier's own score and the matched
\* plan's own score.
ConfidenceIsOwnAverage ==
    (Parsed /\ BothMatched /\ CarriersAgree) =>
        extracted.confidence =
            MathRound(ExactValue(
                FracMul(FracAdd(OwnCarrierScore, OwnPlanScore), 1, 2)))

\* C9: with a matched carrier and a matched plan of another carrier,
\* confidence is round(((carrier score + plan score) / 2) * 0.7) and the result
\* carries the carrier, the plan and both candidate lists.
MismatchConfidencePenalised ==
    (Parsed /\ BothMatched /\ ~CarriersAgree) =>
        /\ extracted.confidence =
               MathRound(TimesDouble(
                   FracMul(FracAdd(OwnCarrierScore, OwnPlanScore), 1, 2),
                   Double07))
        /\ Len(extracted.carrierMatches) = Len(carriers)
        /\ Len(extracted.planMatches) = Len(plans)

\* t is a plan-ID token: H or S, four digits, a hyphen, three digits
IsPlanIdToken(t) ==
    /\ Len(t) = 9
    /\ CharAt(t, 1) \in {"H", "S"}
    /\ \A k \in {2, 3, 4, 5, 7, 8, 9} : CharAt(t, k) \in {"0", "1", "2", "3", "4", "5", "6", "7", "8", "9"}
    /\ CharAt(t, 6) = "-"

\* the plan-ID tokens that occur in the text
TokensInText ==
    {SubSeq(text, j, j + 8) : j \in {k \in 1..(Len(text) - 8) :
                                       IsPlanIdToken(SubSeq(text, k, k + 8))}}

\* the scores listed in planMatches under the name of plan p
ListedPlanScores(p) ==
    {extracted.planMatches[m].score :
        m \in {k \in 1..Len(extracted.planMatches) :
                  extracted.planMatches[k].name = p.name}}

\* C11: a catalog plan whose name contains a plan-ID token that occurs in the
\* text is listed in planMatches with score exactly 100, whatever else the
\* text and the catalog hold.
PlanIdShortCircuit ==
    Parsed =>
        \A i \in 1..Len(plans) :
            (\E t \in TokensInText : Includes(plans[i].name, t)) =>
                ListedPlanScores(plans[i]) = {<<100, 1>>}

\* a text with a plan-ID token and other words, a catalog with the plan of
\* that ID and another plan that the text names in full
PlanIdShortCircuitWitness ==
    /\ Parsed
    /\ TokensInText # {}
    /\ \E i, j \in 1..Len(plans) :
           /\ \E t \in TokensInText : Includes(plans[i].name, t)
           /\ ~Includes(toUpperCase(text), toUpperCase(plans[i].name))
           /\ ListedPlanScores(plans[i]) = {<<100, 1>>}
           /\ ListedPlanScores(plans[j]) = {<<90, 1>>}
           /\ extracted.plan = plans[i]

\* the scores of a candidate list do not increase along the list
NonIncreasing(ms) ==
    \A i \in 1..(Len(ms) - 1) : ~FracLt(ms[i].score, ms[i + 1].score)

\* the scores listed in carrierMatches under the name of carrier c
ListedCarrierScores(c) ==
    {extracted.carrierMatches[m].score :
        m \in {k \in 1..Len(extracted.carrierMatches) :
                  extracted.carrierMatches[k].name = c.name}}

\* C21: a carrier is matched exactly when the highest carrier score is at
\* least 50, and the matched carrier is a catalog carrier with that score; in
\* every case carrierMatches lists every carrier, by non-increasing score.
CarrierThreshold ==
    Parsed =>
        /\ Len(extracted.carrierMatches) = Len(carriers)
        /\ \A i \in 1..Len(carriers) : ListedCarrierScores(carriers[i]) # {}
        /\ NonIncreasing(extracted.carrierMatches)
        /\ extracted.carrier # NoCarrier
               <=> /\ Len(extracted.carrierMatches) > 0
                   /\ FracGe(extracted.carrierMatches[1].score, 50)
        /\ extracted.carrier # NoCarrier
               => /\ \E i \in 1..Len(carriers) : carriers[i] = extracted.carrier
                  /\ \E sc \in ListedCarrierScores(extracted.carrier) :
                         FracEq(sc, extracted.carrierMatches[1].score)

\* the best carrier scores one word in three: it is listed first, with the
\* other carrier behind it, and no carrier is matched
CarrierThresholdWitness ==
    /\ Parsed
    /\ extracted.carrier = NoCarrier
    /\ Len(extracted.carrierMatches) = 2
    /\ FracLt(Whole(0), extracted.carrierMatches[1].score)
    /\ FracLt(extracted.carrierMatches[1].score, Whole(50))
    /\ FracLt(extracted.carrierMatches[2].score,
              extracted.carrierMatches[1].score)

\* the words of the upper-cased name of plan p that are longer than 2
\* characters, and how many of the words occur in the upper-cased text u
NameWords(p) == SignificantWords(toUpperCase(p.name))

WordsInText(words, u) ==
    Cardinality({k \in 1..Len(words) : Includes(u, words[k])})

\* a plan-ID token among toks occurs in the upper-cased name of plan p
HasPlanIdOf(p, toks) == \E t \in toks : Includes(toUpperCase(p.name), t)

NamedVerbatim(p, u) == Includes(u, toUpperCase(p.name))

\* sc is the score the scoring rule gives plan p, whose name has the given
\* words, for the upper-cased text u with plan-ID tokens toks
IsTableScore(sc, p, words, u, toks) ==
    IF HasPlanIdOf(p, toks) THEN sc = Whole(100)
    ELSE IF NamedVerbatim(p, u) THEN sc = Whole(90)
    ELSE IF Len(words) = 0 THEN sc = Whole(0)
    ELSE /\ FracEq(sc, Frac(80 * WordsInText(words, u), Len(words)))
         /\ ~FracLt(Whole(80), sc)

\* C22: the score of every catalog plan is 100 when a plan-ID token of the
\* text occurs in its (upper-cased) name, otherwise 90 when its upper-cased
\* name occurs in the upper-cased text, otherwise 80 times the share of its
\* words longer than 2 characters that occur in the text: at most 80, and 0
\* for a name without such words.
PlanScoreTable ==
    Parsed =>
        \A i \in 1..Len(plans) :
            /\ ListedPlanScores(plans[i]) # {}
            /\ \A sc \in ListedPlanScores(plans[i]) :
                   IsTableScore(sc, plans[i], NameWords(plans[i]),
                                toUpperCase(text), TokensInText)

\* one catalog with a plan found by its plan ID (100), a plan named in full
\* (90) and a plan with every second word in the text (40)
PlanScoreTableWitness ==
    /\ Parsed
    /\ \E i, j, k \in 1..Len(plans) :
           /\ HasPlanIdOf(plans[i], TokensInText)
           /\ ListedPlanScores(plans[i]) = {Whole(100)}
           /\ ~HasPlanIdOf(plans[j], TokensInText)
           /\ NamedVerbatim(plans[j], toUpperCase(text))
           /\ ListedPlanScores(plans[j]) = {Whole(90)}
           /\ ~HasPlanIdOf(plans[k], TokensInText)
           /\ ~NamedVerbatim(plans[k], toUpperCase(text))
           /\ Len(NameWords(plans[k])) = 4
           /\ WordsInText(NameWords(plans[k]), toUpperCase(text)) = 2
           /\ \A sc \in ListedPlanScores(plans[k]) : FracEq(sc, Whole(40))

\* C23: a plan is matched exactly when some catalog plan scores at least 40,
\* and the matched plan is a catalog plan whose own score is at least 40.
PlanThreshold ==
    Parsed =>
        /\ extracted.plan # NoPlan
               <=> \E k \in 1..Len(extracted.planMatches) :
                       FracGe(extracted.planMatches[k].score, 40)
        /\ extracted.plan # NoPlan
               => /\ \E i \in 1..Len(plans) : plans[i] = extracted.plan
                  /\ ListedPlanScores(extracted.plan) # {}
                  /\ \A sc \in ListedPlanScores(extracted.plan) : FracGe(sc, 40)

\* the best plan scores exactly 40 and is matched, with a plan below 40
\* listed behind it
PlanThresholdWitness ==
    /\ Parsed
    /\ extracted.plan # NoPlan
    /\ Len(extracted.planMatches) >= 2
    /\ FracEq(extracted.planMatches[1].score, Whole(40))
    /\ \E k \in 2..Len(extracted.planMatches) :
           /\ FracLt(Whole(0), extracted.planMatches[k].score)
           /\ FracLt(extracted.planMatches[k].score, Whole(40))

\* plan p is listed with the highest plan score, and that score is at least 40
HasTopScore(p) ==
    /\ FracGe(extracted.planMatches[1].score, 40)
    /\ \E sc \in ListedPlanScores(p) : FracEq(sc, extracted.planMatches[1].score)

\* C24: with a matched carrier, when a plan of that carrier and a plan of
\* another carrier both have the highest plan score (>= 40), the matched plan
\* is a plan of the matched carrier with that score, in either catalog order.
CarrierAffinityTieBreak ==
    (Parsed /\ extracted.carrier # NoCarrier) =>
        \A i, j \in 1..Len(plans) :
            (/\ plans[i].carrierId = extracted.carrier.id
             /\ plans[j].carrierId # extracted.carrier.id
             /\ HasTopScore(plans[i])
             /\ HasTopScore(plans[j]))
            => /\ extracted.plan.carrierId = extracted.carrier.id
               /\ HasTopScore(extracted.plan)
               /\ \E k \in 1..Len(plans) : plans[k] = extracted.plan

\* the plan of another carrier comes first in the catalog, the plan of the
\* matched carrier has the same score and is the one matched
CarrierAffinityTieBreakWitness ==
    /\ Parsed /\ extracted.carrier # NoCarrier
    /\ \E i, j \in 1..Len(plans) :
           /\ j < i
           /\ plans[i].carrierId = extracted.carrier.id
           /\ plans[j].carrierId # extracted.carrier.id
           /\ HasTopScore(plans[i])
           /\ HasTopScore(plans[j])
           /\ extracted.plan = plans[i]

\* the position in docTypePatterns of the first type with a keyword in the
\* upper-cased text u, 0 when there is none
FirstTypeHit(u) ==
    LET hits == {t \in 1..Len(docTypePatterns) :
                    \E k \in 1..Len(docTypePatterns[t].keywords) :
                        Includes(u, docTypePatterns[t].keywords[k])}
    IN  IF hits = {} THEN 0 ELSE CHOOSE t \in hits : \A o \in hits : t <= o

TypePriority == <<"SOB", "EOC", "ANOC", "PROVIDER_LIST", "DRUG_FORMULARY">>

\* C25: the document type is the first of SOB, EOC, ANOC, PROVIDER_LIST,
\* DRUG_FORMULARY with a keyword in the upper-cased text, whatever keywords of
\* later types occur, and UNKNOWN when there is none; extractedBenefits holds
\* the extracted benefit fields for an SOB and is empty for every other type.
DocumentTypePriority ==
    Parsed =>
        /\ \A t \in 1..Len(docTypePatterns) :
               docTypePatterns[t].type = TypePriority[t]
        /\ extracted.documentType =
               IF FirstTypeHit(toUpperCase(text)) = 0 THEN "UNKNOWN"
               ELSE TypePriority[FirstTypeHit(toUpperCase(text))]
        /\ extracted.documentType = "SOB"
               => extracted.extractedBenefits = extractPlanBenefits(text)
        /\ extracted.documentType # "SOB" => extracted.extractedBenefits = {}

\* a document that names an EOC before the summary of benefits is an SOB,
\* with its benefit fields extracted
DocumentTypePriorityWitness ==
    /\ Parsed
    /\ Includes(text, "EOC Summary of Benefits")
    /\ extracted.documentType = "SOB"
    /\ extracted.extractedBenefits =
           {<<"maxOutOfPocket", "3400.00">>,
            <<"fitnessOption", "SilverSneakers or similar program">>}

\* the catalogs that hold the plans of ps in another order
Reorderings(ps) ==
    {[i \in 1..Len(ps) |-> ps[f[i]]] : f \in Permutations(1..Len(ps))}

\* no two plans of ps have equal match scores on the upper-cased text u
ScoresDistinct(u, toks, ps) ==
    \A i, j \in 1..Len(ps) :
        i < j => ~FracEq(PlanScore(u, toks, ps[i]), PlanScore(u, toks, ps[j]))

SameMatch(r, q) == r.plan = q.plan /\ r.confidence = q.confidence

\* C26: when no two plans of the catalog have equal match scores, every
\* catalog holding the same plans in another order gives the same matched
\* plan and the same confidence for the same text and carrier catalog.
PlanOrderIndependent ==
    (Parsed /\ ScoresDistinct(toUpperCase(text), foundPlanIds(text), plans))
        => \A qs \in Reorderings(plans) :
               SameMatch(parsePlanDocumentText(text, carriers, qs), extracted)

SnpReasonCount(r) ==
    Cardinality({i \in 1..Len(r.reasons) : Includes(r.reasons[i], "SNP plan for")})

\* the score of r is the base of 100, one premium branch, and each of the
\* other bonuses at most once
InScoreRange(r) ==
    /\ 80 <= r.score /\ r.score <= 205
    /\ PremiumContribution(r) \in {0 - 20, 0, 10, 25, 40}
    /\ PremiumReasonCount(r) <= 1
    /\ ~(HasReason(r, "Saves $") /\ HasReason(r, "Higher premium by $"))
    /\ HasReason(r, "Higher premium by $") <=> PremiumContribution(r) < 0
    /\ SnpReasonCount(r) <= 1

\* C27: every score of the comparison lies between 80 and 205: the base of
\* 100 is lowered only by the one premium penalty of 20 and raised by at most
\* 40 + 30 + 10 + 10 + 15, the SNP bonus is counted once for a plan that is
\* both C-SNP and D-SNP, and no candidate gets the premium bonus and the
\* premium penalty together.
ScoreRange ==
    Compared =>
        /\ \A k \in 1..Len(Recs) : InScoreRange(Recs[k])
        /\ \A id \in Candidates :
               InScoreRange(ScorePlan(CurrentRow, PoolRow(id)))

\* a recommended plan that is both C-SNP and D-SNP carries the bonus once,
\* next to a recommended plan at the lowest score
ScoreRangeWitness ==
    /\ Compared
    /\ \E k \in 1..Len(Recs) :
           /\ PoolRow(Recs[k].id).isCSnp /\ PoolRow(Recs[k].id).isDSnp
           /\ SnpReasonCount(Recs[k]) = 1
    /\ \E k \in 1..Len(Recs) : Recs[k].score = 80

(***************************************************************************)
(* Properties of the OCR upload handlers (checked under SpecOcr)           *)
(***************************************************************************)
InBatch == pc = "batch:loop" /\ Len(results) > 0

LastResult == results[Len(results)]

SuccessCount == Cardinality({i \in 1..Len(results) : results[i].success})

\* C2: batch-upload reports a file as assigned only if the parse of its text
\* identified a carrier and a plan, the plan's carrierId is the carrier's id
\* and the confidence is at least 40; a plan document record exists for the
\* files reported successful and for no other file.
AutoAssignOnlyThroughGate ==
    /\ Len(planDocuments) = SuccessCount
    /\ \A i \in 1..Len(results) :
          results[i].success =>
              /\ results[i].documentId \in 1..Len(planDocuments)
              /\ planDocuments[results[i].documentId].planId = results[i].planId
    /\ InBatch /\ LastResult.success =>
          /\ ~extraction.threw
          /\ extracted = parsePlanDocumentText(extraction.text, carriers, plans)
          /\ extracted.carrier # NoCarrier
          /\ extracted.plan # NoPlan
          /\ extracted.plan.carrierId = extracted.carrier.id
          /\ extracted.confidence >= 40
          /\ LastResult.planId = extracted.plan.id

\* a mismatched parse result was rejected and a matching one was saved
AutoAssignOnlyThroughGateWitness ==
    /\ InBatch
    /\ Len(results) = 2
    /\ ~results[1].success
    /\ results[1].error = "Carrier and plan mismatch - cannot auto-assign"
    /\ results[2].success
    /\ Len(planDocuments) = 1

\* C4: no plan document created by batch-upload has document type UNKNOWN.
UnknownNeverAutoAssigned ==
    \A i \in 1..Len(planDocuments) : planDocuments[i].documentType # "UNKNOWN"

\* C5: once either OCR endpoint has answered, none of the request's
\* temporary upload files is left in the upload directory.
TempFilesReleased ==
    pc = "responded" => \A i \in 1..Len(files) : files[i].path \notin tmpDir

\* the request is a batch upload whose files all passed the MIME validation
BatchPassedMime ==
    /\ Len(files) > 0
    /\ \A i \in 1..Len(files) :
          /\ Includes(files[i].path, "/files-")
          /\ files[i].mimetype \in allowedMimeTypes

\* results holds one entry for each of the first n files, in upload order
ResultsInUploadOrder(n) ==
    /\ Len(results) = n
    /\ \A i \in 1..n : results[i].fileName = files[i].originalname

\* the summary that answers the request counts every file once
SummaryOf(r) ==
    /\ r.status = 200
    /\ r.body.total = Len(files)
    /\ r.body.successful = SuccessCount
    /\ r.body.successful + r.body.failed = r.body.total

\* C16 as stated: once a batch has passed MIME validation, the answer is a
\* summary with one result per file in upload order and
\* total = successful + failed = number of files.
BatchResultsComplete ==
    (pc = "responded" /\ BatchPassedMime) =>
        /\ ResultsInUploadOrder(Len(files))
        /\ SummaryOf(response)

\* C16, amended: once a batch has passed MIME validation and the carrier and
\* plan catalogs have been loaded, results holds one entry per processed file
\* in upload order, a step of the loop with files left processes the next
\* file and adds exactly its entry whatever happened to the files before, and
\* the handler answers only when every file has its entry, with
\* total = successful + failed = number of files.
BatchResultsCompleteOnceLoaded ==
    /\ [](pc = "batch:loop" =>
            /\ BatchPassedMime
            /\ Len(results) <= Len(files)
            /\ ResultsInUploadOrder(Len(results)))
    /\ [][pc = "batch:loop" =>
            \/ /\ pc' = "batch:loop"
               /\ Len(results) < Len(files)
               /\ Len(results') = Len(results) + 1
               /\ SubSeq(results', 1, Len(results)) = results
               /\ results'[Len(results')].fileName
                      = files[Len(results) + 1].originalname
            \/ /\ pc' = "responded"
               /\ results' = results
               /\ ResultsInUploadOrder(Len(files))
               /\ SummaryOf(response')]_vars

\* a batch of two files answered with total 2, successful 1, failed 1: the
\* first file failed in extraction and the second was still assigned
BatchResultsCompleteWitness ==
    /\ pc = "responded" /\ BatchPassedMime
    /\ Len(files) = 2
    /\ ResultsInUploadOrder(2)
    /\ ~results[1].success /\ results[2].success
    /\ SummaryOf(response)
    /\ response.body.successful = 1 /\ response.body.failed = 1

(***************************************************************************)
(* Properties of extractTextFromDocument (checked under SpecExtract)       *)
(***************************************************************************)
IsPdfPath == toLowerCase(extname(filePath)) = ".pdf"

\* C10: on a .pdf file whose extracted text has fewer than 50 characters after
\* trimming the call throws the scanned-PDF error with the convert-to-JPG/PNG
\* hint and returns no text; with at least 50 characters it returns the text.
ScannedPdfDetected ==
    (pc = "extracted" /\ IsPdfPath /\ content.readable) =>
        IF Len(trim(content.text)) < 50
        THEN /\ extraction.threw
             /\ Includes(extraction.message, "scanned PDF")
             /\ Includes(extraction.message, "JPG or PNG")
        ELSE /\ ~extraction.threw
             /\ extraction.text = content.text

\* a PDF of 49 characters between white space, rejected
ScannedPdfDetectedWitness ==
    /\ pc = "extracted" /\ IsPdfPath /\ content.readable
    /\ Len(trim(content.text)) = 49
    /\ Len(content.text) > 50
    /\ extraction.threw

\* the name under which the handler copies the i-th file of the request
\* into uploaded_documents/, its text being the extraction ex
CopyName(ex, i) ==
    newFileName(parsePlanDocumentText(ex.text, carriers, plans), files[i], i)

\* nothing in permanent storage goes by the name n
NothingStoredAs(n) ==
    /\ n \notin docsDir
    /\ \A k \in 1..Len(planDocuments) : planDocuments[k].filePath # n

\* C30: a file of a batch upload whose result entry has success = false
\* leaves no plan document record and no copy in uploaded_documents/, also
\* when the copy was made and the creation of the record then failed.
FailedFileLeavesNothing ==
    \A i \in 1..Len(results) :
        ~results[i].success =>
            NothingStoredAs(CopyName(extractTextFromDocument(files[i].path,
                                                             files[i].content), i))

(***************************************************************************)
(* Properties of POST /api/staged-documents/:id/assign (checked under      *)
(* SpecAssign and SpecAssignRace)                                          *)
(***************************************************************************)
CannotAssignMessage == "Cannot assign: missing plan ID or document type"

\* assignStagedDocumentToPlan returned undefined
ReturnedUndefined(call) ==
    /\ call.response.status = 400
    /\ call.response.body.error = CannotAssignMessage

\* assignStagedDocumentToPlan was called and returned
AssignReturned(call) ==
    /\ call.phase = "done"
    /\ call.response.status = 200 \/ ReturnedUndefined(call)

\* the staged document exists with planId and documentType set
Assignable(found) ==
    /\ found # {}
    /\ \A d \in found : d.planId # NullId /\ d.documentType \notin {Null, ""}

\* the tables stagedNow and docsNow are those of call.before with the staged
\* document moved, or unchanged when there is nothing to move
MovedByCall(call, found, stagedNow, docsNow) ==
    IF Assignable(found)
    THEN /\ call.response.status = 200
         /\ stagedNow = call.before.staged \ found
         /\ Len(docsNow) = Len(call.before.planDocs) + 1
         /\ SubSeq(docsNow, 1, Len(call.before.planDocs)) = call.before.planDocs
         /\ \A d \in found :
                /\ docsNow[Len(docsNow)].planId = d.planId
                /\ docsNow[Len(docsNow)].documentType = d.documentType
                /\ docsNow[Len(docsNow)].filePath = d.filePath
         /\ call.response.body = docsNow[Len(docsNow)]
    ELSE /\ ReturnedUndefined(call)
         /\ stagedNow = call.before.staged
         /\ docsNow = call.before.planDocs

AssignedAtMostOnce ==
    pc = "assign" =>
        \A id \in {1, 2} :
            Cardinality({i \in DOMAIN planDocuments :
                            planDocuments[i].filePath = StagedPath(id)}) <= 1

=============================================================================
